---- MODULE Spec2Model ----
(***************************************************************************)
(* Pencil decomposition of a dense grid over a Cartesian process grid:     *)
(* the balanced 1-D partition (distribution.rs), the pencil and its count  *)
(* tables (pencil.rs) and the transpose / gather / scatter operations of   *)
(* Decomp2 and Decomp3, run by every process of the grid (SPMD).           *)
(*                                                                         *)
(* Rust arrays and vectors are functions on 0..len-1 (the source's own     *)
(* indices); flat buffers and the element storage of an ndarray are        *)
(* sequences in logical (row-major) order.                                 *)
(***************************************************************************)
EXTENDS Integers, Sequences, FiniteSets, TLC

\* Largest length of a grid axis.
MaxN == 3
\* Largest number of processes of the process grid (product of its dims).
MaxProcs == 4
\* The same, for the runs in which the processes interleave freely.
MaxFreeProcs == 2
\* Operations per program in the freely interleaved runs.
MaxFreeOps == 1
\* Largest number of Decomp operations one process calls.
MaxOps == 4
\* Largest grid length and process count handed to Distribution::split alone.
MaxSplitN == 9
MaxSplitP == 5
\* Largest length of an axis of the 2-D grids whose count tables are built.
MaxCountN == 6
MaxFairProcs == 4
MaxFairOps == 3
MaxFairN == 2

----------------------------------------------------------------------------
\* Generic helpers: vectors, products, sums, loops.

\* A Rust array / Vec literal as a function on 0..len-1.
Vec(s) == [i \in 0..(Len(s) - 1) |-> s[i + 1]]

VLen(v) == Cardinality(DOMAIN v)

RECURSIVE VProdUpTo(_, _)
VProdUpTo(v, k) == IF k < 0 THEN 1 ELSE v[k] * VProdUpTo(v, k - 1)
\* iter().product()
VProd(v) == VProdUpTo(v, VLen(v) - 1)

RECURSIVE VSumUpTo(_, _)
VSumUpTo(v, k) == IF k < 0 THEN 0 ELSE v[k] + VSumUpTo(v, k - 1)
\* iter().sum()
VSum(v) == VSumUpTo(v, VLen(v) - 1)

\* `for x in lo..=hi { body }`: the concatenation of what each pass yields.
ForRange(lo, hi, Body(_)) ==
    LET f[x \in lo..(hi + 1)] == IF x > hi THEN <<>> ELSE Body(x) \o f[x + 1]
    IN IF hi < lo THEN <<>> ELSE f[lo]

----------------------------------------------------------------------------
\* distribution.rs

\* First loop of distribute: `for i in 1..nl`.
RECURSIVE distribute_first(_, _, _, _)
distribute_first(d, i, nl, size) ==
    IF i >= nl THEN d
    ELSE distribute_first(
            [st |-> [d.st EXCEPT ![i] = d.st[i - 1] + size],
             sz |-> [d.sz EXCEPT ![i] = size],
             en |-> [d.en EXCEPT ![i] = d.en[i - 1] + size]],
            i + 1, nl, size)

\* Second loop of distribute: `for i in nl..nprocs`, size already size + 1.
RECURSIVE distribute_last(_, _, _, _)
distribute_last(d, i, nprocs, size) ==
    IF i >= nprocs THEN d
    ELSE distribute_last(
            [st |-> [d.st EXCEPT ![i] = d.en[i - 1] + 1],
             sz |-> [d.sz EXCEPT ![i] = size],
             en |-> [d.en EXCEPT ![i] = d.en[i - 1] + size]],
            i + 1, nprocs, size)

\* A faulty distribute that drops the remainder: every rank gets n / p points.
distribute_drop_remainder(n_global, nprocs) ==
    LET size == n_global \div nprocs
    IN [st |-> [i \in 0..(nprocs - 1) |-> i * size],
        en |-> [i \in 0..(nprocs - 1) |-> i * size + size - 1],
        sz |-> [i \in 0..(nprocs - 1) |-> size]]

\* A faulty distribute that hands the extra points to the first ranks.
distribute_front(n_global, nprocs) ==
    LET size == n_global \div nprocs
        nu   == n_global - size * nprocs
        st   == [i \in 0..(nprocs - 1) |-> i * size + (IF i < nu THEN i ELSE nu)]
        sz   == [i \in 0..(nprocs - 1) |-> size + (IF i < nu THEN 1 ELSE 0)]
    IN [st |-> st, en |-> [i \in 0..(nprocs - 1) |-> st[i] + sz[i] - 1], sz |-> sz]

\* Distribution::distribute for nprocs >= 1. usize arithmetic is computed in
\* the integers: a value of -1 is usize::MAX of a build that wraps.
distribute(n_global, nprocs) ==
    LET size == n_global \div nprocs
        zero == [i \in 0..(nprocs - 1) |-> 0]
        d0   == [st |-> zero,
                 sz |-> [zero EXCEPT ![0] = size],
                 en |-> [zero EXCEPT ![0] = size - 1]]
        nu   == n_global - size * nprocs
        nl   == nprocs - nu
        d1   == distribute_first(d0, 1, nl, size)
        d2   == distribute_last(d1, nl, nprocs, size + 1)
        en3  == [d2.en EXCEPT ![nprocs - 1] = n_global - 1]
        sz3  == [d2.sz EXCEPT ![nprocs - 1] = en3[nprocs - 1] - d2.st[nprocs - 1] + 1]
    IN [st |-> d2.st, en |-> en3, sz |-> sz3]

\* Distribution::contiguous
contiguous(n_global) ==
    [sz |-> n_global, st |-> 0, en |-> n_global - 1,
     sz_procs |-> Vec(<<n_global>>),
     st_procs |-> Vec(<<0>>),
     en_procs |-> Vec(<<n_global - 1>>)]

\* Distribution::split
split(n_global, nprocs, nrank) ==
    LET d == distribute(n_global, nprocs)
    IN [sz |-> d.sz[nrank], st |-> d.st[nrank], en |-> d.en[nrank],
        sz_procs |-> d.sz, st_procs |-> d.st, en_procs |-> d.en]

----------------------------------------------------------------------------
\* The Cartesian topology the communication layer supplies (rank order is
\* row-major over the process grid, no reordering).

\* Number of processes of a process grid.
world_size(cart_dims) == VProd(cart_dims)

\* A faulty layout that puts every process at the origin of the process grid.
cart_coords_origin(cart_dims, rank) == [i \in DOMAIN cart_dims |-> 0]

\* CartesianLayout.coords of world rank `rank`.
cart_coords_of(cart_dims, rank) ==
    IF VLen(cart_dims) = 1 THEN Vec(<<rank>>)
    ELSE Vec(<<rank \div cart_dims[1], rank % cart_dims[1]>>)

----------------------------------------------------------------------------
\* pencil.rs: the pencil

\* A faulty loop that hands the process-grid dimensions out in reverse order.
new_dists_reversed(dists, i, dim, n_global, axis_contig, comm) ==
    [a \in DOMAIN n_global |->
        IF a = axis_contig THEN contiguous(n_global[a])
        ELSE LET d == (VLen(n_global) - 2) - (IF a < axis_contig THEN a ELSE a - 1)
             IN split(n_global[a], comm.dims[d], comm.coords[d])]

\* The loop of Pencil::new over the grid axes, with its running `dim`.
RECURSIVE new_dists(_, _, _, _, _, _)
new_dists(dists, i, dim, n_global, axis_contig, comm) ==
    IF i >= VLen(n_global) THEN dists
    ELSE IF i = axis_contig
         THEN new_dists(dists @@ (i :> contiguous(n_global[i])),
                        i + 1, dim, n_global, axis_contig, comm)
         ELSE new_dists(dists @@ (i :> split(n_global[i], comm.dims[dim], comm.coords[dim])),
                        i + 1, dim + 1, n_global, axis_contig, comm)

\* Pencil::new on the process of world rank `rank` (its preconditions hold).
Pencil_new(rank, n_global, axis_contig, cart_ndims) ==
    LET comm == [dims |-> cart_ndims, coords |-> cart_coords_of(cart_ndims, rank)]
    IN [comm |-> comm,
        dists |-> new_dists(<<>>, 0, 0, n_global, axis_contig, comm),
        axis_contig |-> axis_contig]

\* Grid dimensionality M of a pencil.
PencilM(pencil) == VLen(pencil.dists)

\* A faulty mapping that takes the contiguous axis for the first split axis.
map_dim_accepts_contig(pencil, dim) ==
    IF ~(dim < PencilM(pencil)) THEN -1
    ELSE IF dim < pencil.axis_contig THEN dim
    ELSE IF dim > pencil.axis_contig THEN dim - 1
    ELSE 0

\* Pencil::map_dim_to_cart_dim; -1 stands for the panic.
map_dim_to_cart_dim(pencil, dim) ==
    IF ~(dim < PencilM(pencil)) THEN -1
    ELSE IF dim < pencil.axis_contig THEN dim
    ELSE IF dim > pencil.axis_contig THEN dim - 1
    ELSE -1

\* Pencil::nprocs_along_axis; -1 stands for the panic.
nprocs_along_axis(pencil, axis) ==
    LET cart_dim == map_dim_to_cart_dim(pencil, axis)
    IN IF cart_dim = -1 THEN -1 ELSE pencil.comm.dims[cart_dim]

\* A faulty sub-group that retains the other dimension of a 2-D process grid.
subcomm_across_axis(pencil, axis) ==
    LET dims     == pencil.comm.dims
        coords   == pencil.comm.coords
        cart_dim == IF VLen(dims) = 1 THEN 0 ELSE 1 - map_dim_to_cart_dim(pencil, axis)
        world(c) == IF VLen(dims) = 1 THEN c[0] ELSE c[0] * dims[1] + c[1]
    IN [members |-> [r \in 0..(dims[cart_dim] - 1) |->
                        world([coords EXCEPT ![cart_dim] = r])],
        rank |-> IF VLen(dims) = 1 THEN 0 ELSE coords[cart_dim]]

\* Pencil::subcomm_along_axis on a process with coordinates pencil.comm.coords:
\* the world ranks of the sub-group, in sub-group rank order, and the
\* caller's rank in it.
subcomm_along_axis(pencil, axis) ==
    LET cart_dim == map_dim_to_cart_dim(pencil, axis)
        dims     == pencil.comm.dims
        coords   == pencil.comm.coords
        world(c) == IF VLen(dims) = 1 THEN c[0] ELSE c[0] * dims[1] + c[1]
    IN [members |-> [r \in 0..(dims[cart_dim] - 1) |->
                        world([coords EXCEPT ![cart_dim] = r])],
        rank |-> coords[cart_dim]]

\* Pencil::shape
shape(pencil) == [i \in DOMAIN pencil.dists |-> pencil.dists[i].sz]

\* A faulty shape_global that reports the local sizes.
shape_global_local(pencil) == shape(pencil)

\* Pencil::shape_global
shape_global(pencil) == [i \in DOMAIN pencil.dists |-> VSum(pencil.dists[i].sz_procs)]

\* Pencil::len
len(pencil) == VProd(shape(pencil))

\* Pencil::len_global
len_global(pencil) == VProd(shape_global(pencil))

\* The `scan` that turns counts into displacements.
RECURSIVE displs_scan(_, _, _, _)
displs_scan(counts, i, acc, out) ==
    IF i >= VLen(counts) THEN out
    ELSE displs_scan(counts, i + 1, acc + counts[i], out @@ (i :> acc))

\* A faulty scan that yields the inclusive prefix sums.
displs_of_inclusive(counts) ==
    [i \in DOMAIN counts |-> VSumUpTo(counts, i)]

displs_of(counts) == displs_scan(counts, 0, 0, <<>>)

\* A faulty factor that takes the destination's chunk of the send pencil on
\* the axis the receive pencil holds whole.
send_count_factor_of_peer(send, recv, i, np) ==
    IF i # send.axis_contig /\ i # recv.axis_contig
    THEN IF send.dists[i].sz = recv.dists[i].sz THEN send.dists[i].sz ELSE -1
    ELSE IF i = recv.axis_contig
         THEN send.dists[i].sz_procs[np]
         ELSE recv.dists[i].sz_procs[np]

\* The factor axis i contributes to the count for rank np (the body of the
\* `for i in 0..M` loop of send_counts_all_to_all); -1 is the failed assert.
send_count_factor(send, recv, i, np) ==
    IF i # send.axis_contig /\ i # recv.axis_contig
    THEN IF send.dists[i].sz = recv.dists[i].sz THEN send.dists[i].sz ELSE -1
    ELSE IF i = recv.axis_contig
         THEN send.dists[i].sz
         ELSE recv.dists[i].sz_procs[np]

\* A faulty send table that counts the caller's own chunk of the receive
\* pencil for every destination.
send_counts_own_chunk(send, recv) ==
    IF send.axis_contig = recv.axis_contig THEN [ok |-> FALSE]
    ELSE LET counts == [np \in 0..(nprocs_along_axis(send, recv.axis_contig) - 1) |->
                          VProd([i \in DOMAIN send.dists |->
                                   IF i = send.axis_contig THEN recv.dists[i].sz
                                   ELSE send.dists[i].sz])]
         IN [ok |-> TRUE, counts |-> counts, displs |-> displs_of(counts)]

\* pencil.rs send_counts_all_to_all: [ok, counts, displs]; ok = FALSE is a panic.
send_counts_all_to_all(send, recv) ==
    IF send.axis_contig = recv.axis_contig THEN [ok |-> FALSE]
    ELSE LET nprocs == nprocs_along_axis(send, recv.axis_contig)
             M      == PencilM(send)
         IN IF nprocs = -1 \/ \E i \in 0..(M - 1) : send_count_factor(send, recv, i, 0) = -1
            THEN [ok |-> FALSE]
            ELSE LET counts == [np \in 0..(nprocs - 1) |->
                                  VProd([i \in 0..(M - 1) |-> send_count_factor(send, recv, i, np)])]
                 IN [ok |-> TRUE, counts |-> counts, displs |-> displs_of(counts)]

\* pencil.rs recv_counts_all_to_all
recv_counts_all_to_all(send, recv) == send_counts_all_to_all(recv, send)

\* A faulty gather table that takes the caller's own size on every axis.
recv_counts_gather_axis_own(pencil, axis) ==
    LET nprocs == nprocs_along_axis(pencil, axis)
        counts == [np \in 0..(nprocs - 1) |-> len(pencil)]
    IN IF pencil.axis_contig = axis \/ ~(axis < PencilM(pencil)) THEN [ok |-> FALSE]
       ELSE [ok |-> TRUE, counts |-> counts, displs |-> displs_of(counts)]

\* pencil.rs recv_counts_gather_axis: [ok, counts, displs]; ok = FALSE is a panic.
recv_counts_gather_axis(pencil, axis) ==
    IF pencil.axis_contig = axis \/ ~(axis < PencilM(pencil)) THEN [ok |-> FALSE]
    ELSE LET nprocs == nprocs_along_axis(pencil, axis)
             M      == PencilM(pencil)
             counts == [np \in 0..(nprocs - 1) |->
                          VProd([i \in 0..(M - 1) |->
                                   IF i = axis THEN pencil.dists[i].sz_procs[np]
                                   ELSE pencil.dists[i].sz])]
         IN [ok |-> TRUE, counts |-> counts, displs |-> displs_of(counts)]

----------------------------------------------------------------------------
\* ndarray arrays: [shape, data], data in logical (row-major) order; an
\* index is a tuple <<i, j>> or <<i, j, k>>.

\* Row-major offset of an index in an array of the given shape.
RECURSIVE OffsetFrom(_, _, _, _)
OffsetFrom(shp, idx, a, acc) ==
    IF a >= VLen(shp) THEN acc
    ELSE OffsetFrom(shp, idx, a + 1, acc * shp[a] + idx[a + 1])

Offset(shp, idx) == OffsetFrom(shp, idx, 0, 0)

\* The index of the element at row-major position pos (from 0).
Unravel(shp, pos) ==
    [a \in 1..VLen(shp) |->
        (pos \div VProd([b \in 0..(VLen(shp) - a - 1) |-> shp[a + b]])) % shp[a - 1]]

InBounds(shp, idx) == \A a \in DOMAIN shp : idx[a + 1] >= 0 /\ idx[a + 1] < shp[a]

\* An array of one value: Array::zeros, vec![T::zero(); n], fill.
Filled(shp, v) == [shape |-> shp, data |-> [p \in 1..VProd(shp) |-> v]]
FilledBuf(n, v) == [p \in 1..n |-> v]

\* Array built from a function of the index.
FromFn(shp, F(_)) ==
    [shape |-> shp, data |-> [p \in 1..VProd(shp) |-> F(Unravel(shp, p - 1))]]

\* data[[i, j, k]]
At(arr, idx) == arr.data[Offset(arr.shape, idx) + 1]

SwapIdx(idx, a, b) ==
    [c \in DOMAIN idx |-> IF c = a + 1 THEN idx[b + 1] ELSE IF c = b + 1 THEN idx[a + 1] ELSE idx[c]]

\* ndarray swap_axes(a, b): the same elements seen with the two axes swapped.
swap_axes(arr, a, b) ==
    LET shp == [c \in DOMAIN arr.shape |->
                   IF c = a THEN arr.shape[b] ELSE IF c = b THEN arr.shape[a] ELSE arr.shape[c]]
    IN FromFn(shp, LAMBDA idx : At(arr, SwapIdx(idx, a, b)))

\* `for (d, b) in src.iter().zip(dst.iter_mut()) { *b = *d }`
zip_copy(src, dst) ==
    [p \in 1..Len(dst) |-> IF p <= Len(src) THEN src[p] ELSE dst[p]]

\* `data[idx] = buf[pos]; pos += 1` for the indices of `writes` in order;
\* ok = FALSE when an index or a buffer position is out of bounds (a panic).
RECURSIVE apply_writes(_, _, _, _)
apply_writes(arr, writes, buf, pos) ==
    IF pos > Len(writes) THEN [ok |-> TRUE, arr |-> arr]
    ELSE IF ~InBounds(arr.shape, writes[pos]) \/ pos > Len(buf)
         THEN [ok |-> FALSE, arr |-> arr]
         ELSE apply_writes(
                [arr EXCEPT !.data[Offset(arr.shape, writes[pos]) + 1] = buf[pos]],
                writes, buf, pos + 1)

----------------------------------------------------------------------------
\* The index-derived test data of the examples.

\* examples: test_array(shape, displs) and its 3-D form in test_array_from_pencil.
test_array(shp, displs) ==
    FromFn(shp, LAMBDA idx :
        IF VLen(shp) = 2
        THEN (idx[1] + displs[0]) + (idx[2] + displs[1]) * 10
        ELSE (idx[1] + displs[0]) + (idx[2] + displs[1]) * 10 + (idx[3] + displs[2]) * 100)

\* examples: test_array_from_pencil
test_array_from_pencil(pencil) ==
    test_array(shape(pencil), [i \in DOMAIN pencil.dists |-> pencil.dists[i].st])

----------------------------------------------------------------------------
\* decomp2.rs: pack and unpack. The asserts on axis_contig in these routines
\* hold at every call, since Decomp2 passes its own x_pencil and y_pencil.

\* A faulty pack that forgets to swap the axes.
D2_split_unswapped(data, buf, send_pencil, recv_pencil) == zip_copy(data.data, buf)

\* decomp2.rs split_xy
D2_split_xy(data, buf, x_pencil, y_pencil) == zip_copy(data.data, buf)

\* decomp2.rs split_yx
D2_split_yx(data, buf, y_pencil, x_pencil) == zip_copy(swap_axes(data, 0, 1).data, buf)

\* The indices merge_xy of decomp2.rs writes, in the order of its loops.
D2_merge_xy_writes(x_pencil, y_pencil) ==
    ForRange(0, nprocs_along_axis(x_pencil, 1) - 1, LAMBDA proc :
      ForRange(0, y_pencil.dists[0].sz - 1, LAMBDA i :
        ForRange(x_pencil.dists[1].st_procs[proc], x_pencil.dists[1].en_procs[proc], LAMBDA j :
          << <<i, j>> >>)))

\* decomp2.rs merge_xy
D2_merge_xy(buf, data, x_pencil, y_pencil) ==
    apply_writes(data, D2_merge_xy_writes(x_pencil, y_pencil), buf, 1)

\* The indices merge_yx of decomp2.rs writes, in the order of its loops.
D2_merge_yx_writes(y_pencil, x_pencil) ==
    ForRange(0, nprocs_along_axis(y_pencil, 0) - 1, LAMBDA proc :
      ForRange(0, x_pencil.dists[1].sz - 1, LAMBDA j :
        ForRange(y_pencil.dists[0].st_procs[proc], y_pencil.dists[0].en_procs[proc], LAMBDA i :
          << <<i, j>> >>)))

\* decomp2.rs merge_yx
D2_merge_yx(buf, data, y_pencil, x_pencil) ==
    apply_writes(data, D2_merge_yx_writes(y_pencil, x_pencil), buf, 1)

\* A faulty gather pack that forgets to swap the axes.
split_gather_unswapped(data, buf) == zip_copy(data.data, buf)

\* A faulty gather unpack that forgets to swap the axes.
merge_gather_unswapped(buf, data) == [data EXCEPT !.data = zip_copy(buf, data.data)]

\* A faulty gather unpack that swaps the axes where it must not.
merge_gather_swapped(buf, data) ==
    LET view == swap_axes(data, 0, 1)
    IN swap_axes([view EXCEPT !.data = zip_copy(buf, view.data)], 0, 1)

\* decomp2.rs split_gather_x
split_gather_x(data, buf) == zip_copy(swap_axes(data, 0, 1).data, buf)

\* decomp2.rs split_gather_y
split_gather_y(data, buf) == zip_copy(data.data, buf)

\* decomp2.rs merge_gather_x: swap the axes, copy in order, swap back.
merge_gather_x(buf, data) ==
    LET view == swap_axes(data, 0, 1)
    IN swap_axes([view EXCEPT !.data = zip_copy(buf, view.data)], 0, 1)

\* decomp2.rs merge_gather_y
merge_gather_y(buf, data) == [data EXCEPT !.data = zip_copy(buf, data.data)]

----------------------------------------------------------------------------
\* decomp3.rs: pack and unpack (the asserts on axis_contig hold likewise).

\* A faulty pack that forgets to swap the axes.
D3_split_unswapped(data, buf, send_pencil, recv_pencil) == zip_copy(data.data, buf)

\* decomp3.rs split_xy
D3_split_xy(data, buf, x_pencil, y_pencil) == zip_copy(data.data, buf)

\* decomp3.rs split_yx
D3_split_yx(data, buf, y_pencil, x_pencil) == zip_copy(swap_axes(data, 0, 1).data, buf)

\* decomp3.rs split_yz
D3_split_yz(data, buf, y_pencil, z_pencil) == zip_copy(swap_axes(data, 0, 1).data, buf)

\* decomp3.rs split_zy
D3_split_zy(data, buf, z_pencil, y_pencil) == zip_copy(swap_axes(data, 0, 2).data, buf)

\* The indices merge_xy of decomp3.rs writes, in the order of its loops.
D3_merge_xy_writes(x_pencil, y_pencil) ==
    ForRange(0, nprocs_along_axis(x_pencil, 1) - 1, LAMBDA proc :
      ForRange(0, y_pencil.dists[0].sz - 1, LAMBDA i :
        ForRange(x_pencil.dists[1].st_procs[proc], x_pencil.dists[1].en_procs[proc], LAMBDA j :
          ForRange(0, y_pencil.dists[2].sz - 1, LAMBDA k :
            << <<i, j, k>> >>))))

\* decomp3.rs merge_xy
D3_merge_xy(buf, data, x_pencil, y_pencil) ==
    apply_writes(data, D3_merge_xy_writes(x_pencil, y_pencil), buf, 1)

\* The indices merge_yx of decomp3.rs writes, in the order of its loops.
D3_merge_yx_writes(y_pencil, x_pencil) ==
    ForRange(0, nprocs_along_axis(y_pencil, 0) - 1, LAMBDA proc :
      ForRange(0, x_pencil.dists[1].sz - 1, LAMBDA j :
        ForRange(y_pencil.dists[0].st_procs[proc], y_pencil.dists[0].en_procs[proc], LAMBDA i :
          ForRange(0, x_pencil.dists[2].sz - 1, LAMBDA k :
            << <<i, j, k>> >>))))

\* decomp3.rs merge_yx
D3_merge_yx(buf, data, y_pencil, x_pencil) ==
    apply_writes(data, D3_merge_yx_writes(y_pencil, x_pencil), buf, 1)

\* A faulty unpack that places the block of every source rank at the range
\* of source rank 0.
D3_merge_yz_writes_first_chunk(y_pencil, z_pencil) ==
    ForRange(0, nprocs_along_axis(y_pencil, 2) - 1, LAMBDA proc :
      ForRange(0, z_pencil.dists[1].sz - 1, LAMBDA j :
        ForRange(0, z_pencil.dists[0].sz - 1, LAMBDA i :
          ForRange(y_pencil.dists[2].st_procs[0], y_pencil.dists[2].en_procs[0], LAMBDA k :
            << <<i, j, k>> >>))))

\* The indices merge_yz of decomp3.rs writes, in the order of its loops.
D3_merge_yz_writes(y_pencil, z_pencil) ==
    ForRange(0, nprocs_along_axis(y_pencil, 2) - 1, LAMBDA proc :
      ForRange(0, z_pencil.dists[1].sz - 1, LAMBDA j :
        ForRange(0, z_pencil.dists[0].sz - 1, LAMBDA i :
          ForRange(y_pencil.dists[2].st_procs[proc], y_pencil.dists[2].en_procs[proc], LAMBDA k :
            << <<i, j, k>> >>))))

\* decomp3.rs merge_yz
D3_merge_yz(buf, data, y_pencil, z_pencil) ==
    apply_writes(data, D3_merge_yz_writes(y_pencil, z_pencil), buf, 1)

\* The indices merge_zy of decomp3.rs writes, in the order of its loops.
D3_merge_zy_writes(z_pencil, y_pencil) ==
    ForRange(0, nprocs_along_axis(z_pencil, 1) - 1, LAMBDA proc :
      ForRange(0, y_pencil.dists[2].sz - 1, LAMBDA k :
        ForRange(z_pencil.dists[1].st_procs[proc], z_pencil.dists[1].en_procs[proc], LAMBDA j :
          ForRange(0, y_pencil.dists[0].sz - 1, LAMBDA i :
            << <<i, j, k>> >>))))

\* decomp3.rs merge_zy
D3_merge_zy(buf, data, z_pencil, y_pencil) ==
    apply_writes(data, D3_merge_zy_writes(z_pencil, y_pencil), buf, 1)

----------------------------------------------------------------------------
\* decomp2.rs / decomp3.rs: the decompositions and their shape checks.

\* Decomp2::new on the process of world rank `rank`.
Decomp2_new(rank, n_global, cart_dims) ==
    [n_global |-> n_global,
     x_pencil |-> Pencil_new(rank, n_global, 0, cart_dims),
     y_pencil |-> Pencil_new(rank, n_global, 1, cart_dims)]

\* A faulty Decomp3::new whose third pencil is a second y-pencil.
Decomp3_new_two_y(rank, n_global, cart_dims) ==
    [n_global |-> n_global,
     x_pencil |-> Pencil_new(rank, n_global, 0, cart_dims),
     y_pencil |-> Pencil_new(rank, n_global, 1, cart_dims),
     z_pencil |-> Pencil_new(rank, n_global, 1, cart_dims)]

\* Decomp3::new on the process of world rank `rank`.
Decomp3_new(rank, n_global, cart_dims) ==
    [n_global |-> n_global,
     x_pencil |-> Pencil_new(rank, n_global, 0, cart_dims),
     y_pencil |-> Pencil_new(rank, n_global, 1, cart_dims),
     z_pencil |-> Pencil_new(rank, n_global, 2, cart_dims)]

\* A faulty check that compares the number of elements only.
check_shape_len(arr, shp) == VProd(arr.shape) = VProd(shp)

\* decomp3.rs check_shape: TRUE when the assert passes.
check_shape(arr, shp) == ~(arr.shape # shp)

\* internal_macros.rs assert_eq_shape!: TRUE when the assert passes.
assert_eq_shape(arr, pencil) == arr.shape = shape(pencil)

----------------------------------------------------------------------------
\* pencil.rs: the engine, on one process.

\* transpose up to its collective call: the packed buffer and the send table.
\* ok = FALSE is a panic (the buffer is packed before the tables are built).
transpose_pack(send_pencil, recv_pencil, packed) ==
    IF send_pencil.axis_contig = recv_pencil.axis_contig
    THEN [ok |-> FALSE, send_buf |-> <<>>]
    ELSE LET sc == send_counts_all_to_all(send_pencil, recv_pencil)
             rc == recv_counts_all_to_all(send_pencil, recv_pencil)
         IN IF sc.ok /\ rc.ok
            THEN [ok |-> TRUE, send_buf |-> packed, counts |-> sc.counts, displs |-> sc.displs]
            ELSE [ok |-> FALSE, send_buf |-> packed]

\* What a variable-count collective stores for one source: `seg` at
\* displacement displ of buf, at most cnt elements.
place(buf, displ, cnt, seg) ==
    [p \in 1..Len(buf) |->
        IF p > displ /\ p <= displ + cnt /\ p - displ <= Len(seg)
        THEN seg[p - displ] ELSE buf[p]]

\* The partition [displs[r], displs[r] + counts[r]) of a buffer.
partition(buf, counts, displs, r) == SubSeq(buf, displs[r] + 1, displs[r] + counts[r])

\* all_to_all_varcount_into as seen by the member of sub-group rank `me`:
\* sent[s] is what member s posted (its buffer and send table).
RECURSIVE all_to_all_from(_, _, _, _, _, _)
all_to_all_from(recv_buf, s, sent, me, counts, displs) ==
    IF s >= VLen(sent) THEN recv_buf
    ELSE all_to_all_from(
            place(recv_buf, displs[s], counts[s],
                  partition(sent[s].buf, sent[s].counts, sent[s].displs, me)),
            s + 1, sent, me, counts, displs)

all_to_all_varcount_into(recv_buf, sent, me, counts, displs) ==
    all_to_all_from(recv_buf, 0, sent, me, counts, displs)

\* gather_varcount_into_root: every member's buffer into the root's partition.
RECURSIVE gather_from(_, _, _, _, _)
gather_from(recv_buf, s, sent, counts, displs) ==
    IF s >= VLen(sent) THEN recv_buf
    ELSE gather_from(place(recv_buf, displs[s], counts[s], sent[s].buf),
                     s + 1, sent, counts, displs)

gather_varcount_into_root(recv_buf, sent, counts, displs) ==
    gather_from(recv_buf, 0, sent, counts, displs)

\* scatter_varcount_into: the root's partition for sub-group rank `me`.
scatter_varcount_into(recv_buf, root_sent, me) ==
    zip_copy(partition(root_sent.buf, root_sent.counts, root_sent.displs, me), recv_buf)

----------------------------------------------------------------------------
\* The processes of the grid. Every process runs the same program (the
\* sequence of Decomp operations `prog`), each at its own pace; a process
\* blocks in a collective call until every member of the sub-group has
\* issued the matching call; a failed assertion ends the process.

VARIABLES
    decomp,     \* decomp[r]: the Decomp2 / Decomp3 object of world rank r
    prog,       \* the operations called so far, in program order
    ip,         \* ip[r]: number of operations process r has called
    pc,         \* pc[r]: "ready", "in_coll" (blocked in the collective), "failed"
    data,       \* data[r]: the arrays the caller has held: the first one, then each result
    rcv,        \* rcv[r]: the receive array of the call in progress or last made
    send_buf,   \* send_buf[r]: the packed send buffer of the call in progress
    posted,     \* posted[r]: what r handed to each of its collective calls
    sched,      \* "any": processes interleave freely; "rank_order": they take turns
    start,      \* the layout of the arrays the processes hold at first
    arg,        \* input of a stand-alone library call
    ret         \* its result

vars == <<decomp, prog, ip, pc, data, rcv, send_buf, posted, sched, start, arg, ret>>

\* Content of a receive array as the caller hands it in (never a data value).
Blank == -1

Procs == DOMAIN decomp

\* No stand-alone library call has been made.
NoCall == [fn |-> "none"]
DecompM(d) == VLen(d.n_global)
Last(seq) == seq[Len(seq)]

\* Process grids of up to MaxProcs processes for an M-dimensional grid.
Grids(M) ==
    IF M = 2 THEN {Vec(<<p>>) : p \in 1..MaxProcs}
    ELSE {Vec(<<p, q>>) : p \in 1..MaxProcs, q \in 1..MaxProcs}

GlobalShapes(M) == [0..(M - 1) -> 1..MaxN]

\* Every split axis of every pencil is at least as long as its process count
\* (the documented precondition n >= p of Distribution::split).
Splittable(n_global, cart_dims) ==
    \A c \in DOMAIN n_global : \A i \in DOMAIN n_global \ {c} :
        n_global[i] >= cart_dims[IF i < c THEN i ELSE i - 1]

Layouts(M) == IF M = 2 THEN {"x", "y", "global"} ELSE {"x", "y", "z"}

PencilOf(d, layout) ==
    CASE layout = "x" -> d.x_pencil
      [] layout = "y" -> d.y_pencil
      [] layout = "z" -> d.z_pencil

\* The array a caller holds in a layout: the test data of its pencil, or
\* the global test data on the root and an array of `other` elsewhere.
Held(d, rank, layout, other) ==
    IF layout = "global"
    THEN IF rank = 0 THEN test_array(d.n_global, Vec(<<0, 0>>))
         ELSE Filled(d.n_global, other)
    ELSE test_array_from_pencil(PencilOf(d, layout))

\* Every process has built the same decomposition and holds its first array.
SysInit(max_procs) ==
    /\ \E M \in {2, 3} : \E n_global \in GlobalShapes(M) : \E cart_dims \in Grids(M) :
         /\ world_size(cart_dims) <= max_procs
         /\ Splittable(n_global, cart_dims)
         /\ decomp = [r \in 0..(world_size(cart_dims) - 1) |->
                        IF M = 2 THEN Decomp2_new(r, n_global, cart_dims)
                        ELSE Decomp3_new(r, n_global, cart_dims)]
         /\ \E layout \in Layouts(M) : \E other \in {Blank, Blank - 1} :
              /\ start = layout
              /\ data = [r \in 0..(world_size(cart_dims) - 1) |->
                           <<Held(decomp[r], r, layout, other)>>]
    /\ prog = <<>>
    /\ ip = [r \in Procs |-> 0]
    /\ pc = [r \in Procs |-> "ready"]
    /\ rcv = [r \in Procs |-> <<>>]
    /\ send_buf = [r \in Procs |-> <<>>]
    /\ posted = [r \in Procs |-> <<>>]
    /\ arg = NoCall
    /\ ret = NoCall

\* Free interleaving of the processes, callers that may hand in a wrong buffer.
Init == SysInit(MaxFreeProcs) /\ sched = "any"

\* Free interleaving of processes that each keep running, callers that hand
\* in the buffers the operations expect.
InitFair ==
    /\ SysInit(MaxFairProcs)
    /\ sched = "fair"
    /\ \A i \in DOMAIN decomp[0].n_global : decomp[0].n_global[i] <= MaxFairN

\* The run in which the process that is furthest behind steps first.
InitRankOrder == SysInit(MaxProcs) /\ sched = "rank_order"

\* The receive arrays a caller may hand in: of the expected shape or, in the
\* freely interleaved runs, one row too long.
CallerShapes(expected) ==
    IF sched = "any" THEN {expected, [expected EXCEPT ![0] = @ + 1]} ELSE {expected}

Transposes == {"transpose_x_to_y", "transpose_y_to_x", "transpose_y_to_z", "transpose_z_to_y"}
Gathers == {"gather_x", "gather_y"}
Scatters == {"scatter_x", "scatter_y"}

\* The pencil an operation sends from and the one it receives into.
SendPencil(d, op) ==
    CASE op \in {"transpose_x_to_y", "gather_x", "scatter_x"} -> d.x_pencil
      [] op \in {"transpose_y_to_x", "transpose_y_to_z", "gather_y", "scatter_y"} -> d.y_pencil
      [] op = "transpose_z_to_y" -> d.z_pencil

RecvPencil(d, op) ==
    CASE op \in {"transpose_y_to_x", "gather_x", "scatter_x"} -> d.x_pencil
      [] op \in {"transpose_x_to_y", "transpose_z_to_y", "gather_y", "scatter_y"} -> d.y_pencil
      [] op = "transpose_y_to_z" -> d.z_pencil

\* The axis Decomp2 gathers and scatters along.
GatherAxis(op) == IF op \in {"gather_x", "scatter_x"} THEN 1 ELSE 0

\* The sub-group an operation's collective call runs in, on process r.
CommOf(r, op) ==
    IF op \in Transposes
    THEN subcomm_along_axis(SendPencil(decomp[r], op), RecvPencil(decomp[r], op).axis_contig)
    ELSE subcomm_along_axis(SendPencil(decomp[r], op), GatherAxis(op))

\* A faulty completion that waits for a call after the k-th.
collective_complete_late(members, k) ==
    \A s \in DOMAIN members : Len(posted[members[s]]) > k

\* Every member of the sub-group has issued its k-th collective call.
collective_complete(members, k) ==
    \A s \in DOMAIN members : Len(posted[members[s]]) >= k

\* What the members of a sub-group posted in their k-th call, by sub-group rank.
posted_by(members, k) == [s \in DOMAIN members |-> posted[members[s]][k]]

\* The length of the programs the callers run.
max_ops ==
    IF sched = "any" THEN MaxFreeOps ELSE IF sched = "fair" THEN MaxFairOps ELSE MaxOps

\* Process q can take a step: call its next operation, or return from the
\* collective call it is blocked in.
can_step(q) ==
    \/ pc[q] = "ready" /\ ip[q] < max_ops
    \/ pc[q] = "in_coll"
          /\ collective_complete(CommOf(q, prog[ip[q]]).members, Len(posted[q]))

\* Steps taken so far by process q.
steps_of(q) == 2 * ip[q] - (IF pc[q] = "in_coll" THEN 1 ELSE 0)

\* Process r may step now: always when the processes interleave freely; in
\* rank order, when no process that can step is behind it.
may_step(r) ==
    \/ sched \in {"any", "fair"}
    \/ \A q \in Procs \ {r} :
          can_step(q) => ~(steps_of(q) < steps_of(r) \/ (steps_of(q) = steps_of(r) /\ q < r))

\* The layout of the array an operation sends and of the one it returns.
SendLayout(op) ==
    CASE op \in {"transpose_x_to_y", "gather_x"} -> "x"
      [] op \in {"transpose_y_to_x", "transpose_y_to_z", "gather_y"} -> "y"
      [] op = "transpose_z_to_y" -> "z"
      [] op \in Scatters -> "global"

RecvLayout(op) ==
    CASE op \in {"transpose_y_to_x", "scatter_x"} -> "x"
      [] op \in {"transpose_x_to_y", "transpose_z_to_y", "scatter_y"} -> "y"
      [] op = "transpose_y_to_z" -> "z"
      [] op \in Gathers -> "global"

\* The layout of the array a process holds after k operations.
LayoutAfter(k) == IF k = 0 THEN start ELSE RecvLayout(prog[k])

\* Process r calls its next operation, the same one as every other process;
\* in the rank-ordered runs, one that takes the layout it holds.
call_begin(r, op) ==
    /\ pc[r] = "ready"
    /\ may_step(r)
    /\ sched \in {"rank_order", "fair"} => SendLayout(op) = LayoutAfter(ip[r])
    /\ ip[r] < max_ops
    /\ ip[r] < Len(prog) => prog[ip[r] + 1] = op
    /\ prog' = IF ip[r] < Len(prog) THEN prog ELSE Append(prog, op)
    /\ ip' = [ip EXCEPT ![r] = @ + 1]
    /\ UNCHANGED <<decomp, data, sched, start, arg, ret>>

\* A faulty failure that takes every process of the grid down with it.
panic_all(r) == pc' = [q \in Procs |-> "failed"]

\* The call fails an assertion on process r.
panic(r) == pc' = [pc EXCEPT ![r] = "failed"]

\* Process r issues its collective call with `post` and blocks in it.
enter_collective(r, post) ==
    /\ pc' = [pc EXCEPT ![r] = "in_coll"]
    /\ posted' = [posted EXCEPT ![r] = Append(@, post)]

\* pencil.rs transpose, from the call to the collective call, after the
\* shape checks `shapes_ok` of the Decomp operation.
transpose_call(r, op, shapes_ok, send_pencil, recv_pencil, packed) ==
    /\ call_begin(r, op)
    /\ IF ~shapes_ok
       THEN panic(r) /\ UNCHANGED <<send_buf, posted>>
       ELSE LET t == transpose_pack(send_pencil, recv_pencil, packed)
            IN /\ send_buf' = [send_buf EXCEPT ![r] = t.send_buf]
               /\ IF t.ok
                  THEN enter_collective(r, [buf |-> t.send_buf, counts |-> t.counts,
                                            displs |-> t.displs])
                  ELSE panic(r) /\ UNCHANGED posted

\* pencil.rs gather_into_root_along_axis, up to the collective call.
gather_call(r, op, shapes_ok, pencil, axis, packed) ==
    /\ call_begin(r, op)
    /\ IF ~shapes_ok
       THEN panic(r) /\ UNCHANGED <<send_buf, posted>>
       ELSE LET comm == subcomm_along_axis(pencil, axis)
            IN /\ send_buf' = [send_buf EXCEPT ![r] = packed]
               /\ IF comm.rank = 0 /\ ~recv_counts_gather_axis(pencil, axis).ok
                  THEN panic(r) /\ UNCHANGED posted
                  ELSE enter_collective(r, [buf |-> packed])

\* pencil.rs scatter_along_axis, up to the collective call; only the root
\* packs a send buffer.
scatter_call(r, op, shapes_ok, pencil, axis, packed) ==
    /\ call_begin(r, op)
    /\ IF ~shapes_ok
       THEN panic(r) /\ UNCHANGED <<send_buf, posted>>
       ELSE LET comm == subcomm_along_axis(pencil, axis)
                t    == recv_counts_gather_axis(pencil, axis)
            IN IF comm.rank = 0
               THEN /\ send_buf' = [send_buf EXCEPT ![r] = packed]
                    /\ IF t.ok
                       THEN enter_collective(r, [buf |-> packed, counts |-> t.counts,
                                                 displs |-> t.displs])
                       ELSE panic(r) /\ UNCHANGED posted
               ELSE /\ UNCHANGED send_buf
                    /\ enter_collective(r, [buf |-> <<>>])

\* The operation returns to the caller, who keeps the receive array.
return_to_caller(r, m) ==
    /\ rcv' = [rcv EXCEPT ![r] = m.arr]
    /\ send_buf' = [send_buf EXCEPT ![r] = <<>>]
    /\ IF m.ok
       THEN /\ pc' = [pc EXCEPT ![r] = "ready"]
            /\ data' = [data EXCEPT ![r] = Append(@, m.arr)]
       ELSE panic(r) /\ UNCHANGED data
    /\ UNCHANGED <<decomp, prog, ip, posted, sched, start, arg, ret>>

----------------------------------------------------------------------------
\* Decomp2 operations, from the call to the collective call.

D2_transpose_x_to_y(r) ==
    LET d == decomp[r]  snd == Last(data[r])
    IN /\ DecompM(d) = 2
       /\ \E rshape \in CallerShapes(shape(d.y_pencil)) :
            /\ rcv' = [rcv EXCEPT ![r] = Filled(rshape, Blank)]
            /\ transpose_call(r, "transpose_x_to_y",
                 assert_eq_shape(snd, d.x_pencil)
                    /\ assert_eq_shape(Filled(rshape, Blank), d.y_pencil),
                 d.x_pencil, d.y_pencil,
                 D2_split_xy(snd, FilledBuf(len(d.x_pencil), 0), d.x_pencil, d.y_pencil))

D2_transpose_y_to_x(r) ==
    LET d == decomp[r]  snd == Last(data[r])
    IN /\ DecompM(d) = 2
       /\ \E rshape \in CallerShapes(shape(d.x_pencil)) :
            /\ rcv' = [rcv EXCEPT ![r] = Filled(rshape, Blank)]
            /\ transpose_call(r, "transpose_y_to_x",
                 assert_eq_shape(snd, d.y_pencil)
                    /\ assert_eq_shape(Filled(rshape, Blank), d.x_pencil),
                 d.y_pencil, d.x_pencil,
                 D2_split_yx(snd, FilledBuf(len(d.y_pencil), 0), d.y_pencil, d.x_pencil))

gather_x(r) ==
    LET d == decomp[r]  snd == Last(data[r])
    IN /\ DecompM(d) = 2
       /\ \E rshape \in CallerShapes(d.n_global) :
            /\ rcv' = [rcv EXCEPT ![r] = Filled(rshape, Blank)]
            /\ gather_call(r, "gather_x",
                 assert_eq_shape(snd, d.x_pencil) /\ rshape = d.n_global,
                 d.x_pencil, 1,
                 split_gather_x(snd, FilledBuf(len(d.x_pencil), 0)))

gather_y(r) ==
    LET d == decomp[r]  snd == Last(data[r])
    IN /\ DecompM(d) = 2
       /\ \E rshape \in CallerShapes(d.n_global) :
            /\ rcv' = [rcv EXCEPT ![r] = Filled(rshape, Blank)]
            /\ gather_call(r, "gather_y",
                 assert_eq_shape(snd, d.y_pencil) /\ rshape = d.n_global,
                 d.y_pencil, 0,
                 split_gather_y(snd, FilledBuf(len(d.y_pencil), 0)))

scatter_x(r) ==
    LET d == decomp[r]  snd == Last(data[r])
    IN /\ DecompM(d) = 2
       /\ \E rshape \in CallerShapes(shape(d.x_pencil)) :
            /\ rcv' = [rcv EXCEPT ![r] = Filled(rshape, Blank)]
            /\ scatter_call(r, "scatter_x",
                 assert_eq_shape(Filled(rshape, Blank), d.x_pencil) /\ snd.shape = d.n_global,
                 d.x_pencil, 1,
                 split_gather_x(snd, FilledBuf(len_global(d.x_pencil), 0)))

scatter_y(r) ==
    LET d == decomp[r]  snd == Last(data[r])
    IN /\ DecompM(d) = 2
       /\ \E rshape \in CallerShapes(shape(d.y_pencil)) :
            /\ rcv' = [rcv EXCEPT ![r] = Filled(rshape, Blank)]
            /\ scatter_call(r, "scatter_y",
                 assert_eq_shape(Filled(rshape, Blank), d.y_pencil) /\ snd.shape = d.n_global,
                 d.y_pencil, 0,
                 split_gather_y(snd, FilledBuf(len_global(d.y_pencil), 0)))

----------------------------------------------------------------------------
\* Decomp3 operations, from the call to the collective call.

D3_transpose_x_to_y(r) ==
    LET d == decomp[r]  snd == Last(data[r])
    IN /\ DecompM(d) = 3
       /\ \E rshape \in CallerShapes(shape(d.y_pencil)) :
            /\ rcv' = [rcv EXCEPT ![r] = Filled(rshape, Blank)]
            /\ transpose_call(r, "transpose_x_to_y",
                 check_shape(snd, shape(d.x_pencil))
                    /\ check_shape(Filled(rshape, Blank), shape(d.y_pencil)),
                 d.x_pencil, d.y_pencil,
                 D3_split_xy(snd, FilledBuf(len(d.x_pencil), 0), d.x_pencil, d.y_pencil))

D3_transpose_y_to_x(r) ==
    LET d == decomp[r]  snd == Last(data[r])
    IN /\ DecompM(d) = 3
       /\ \E rshape \in CallerShapes(shape(d.x_pencil)) :
            /\ rcv' = [rcv EXCEPT ![r] = Filled(rshape, Blank)]
            /\ transpose_call(r, "transpose_y_to_x",
                 check_shape(snd, shape(d.y_pencil))
                    /\ check_shape(Filled(rshape, Blank), shape(d.x_pencil)),
                 d.y_pencil, d.x_pencil,
                 D3_split_yx(snd, FilledBuf(len(d.y_pencil), 0), d.y_pencil, d.x_pencil))

D3_transpose_y_to_z(r) ==
    LET d == decomp[r]  snd == Last(data[r])
    IN /\ DecompM(d) = 3
       /\ \E rshape \in CallerShapes(shape(d.z_pencil)) :
            /\ rcv' = [rcv EXCEPT ![r] = Filled(rshape, Blank)]
            /\ transpose_call(r, "transpose_y_to_z",
                 check_shape(snd, shape(d.y_pencil))
                    /\ check_shape(Filled(rshape, Blank), shape(d.z_pencil)),
                 d.y_pencil, d.z_pencil,
                 D3_split_yz(snd, FilledBuf(len(d.y_pencil), 0), d.y_pencil, d.z_pencil))

D3_transpose_z_to_y(r) ==
    LET d == decomp[r]  snd == Last(data[r])
    IN /\ DecompM(d) = 3
       /\ \E rshape \in CallerShapes(shape(d.y_pencil)) :
            /\ rcv' = [rcv EXCEPT ![r] = Filled(rshape, Blank)]
            /\ transpose_call(r, "transpose_z_to_y",
                 check_shape(snd, shape(d.z_pencil))
                    /\ check_shape(Filled(rshape, Blank), shape(d.y_pencil)),
                 d.z_pencil, d.y_pencil,
                 D3_split_zy(snd, FilledBuf(len(d.z_pencil), 0), d.z_pencil, d.y_pencil))

----------------------------------------------------------------------------
\* The second half of each operation: the collective completes and the
\* receive buffer is unpacked.

\* The merge routine each transpose hands to the engine.
transpose_merge(d, op, buf, arr) ==
    LET sp == SendPencil(d, op)  rp == RecvPencil(d, op)
    IN CASE DecompM(d) = 2 /\ op = "transpose_x_to_y" -> D2_merge_xy(buf, arr, sp, rp)
         [] DecompM(d) = 2 /\ op = "transpose_y_to_x" -> D2_merge_yx(buf, arr, sp, rp)
         [] DecompM(d) = 3 /\ op = "transpose_x_to_y" -> D3_merge_xy(buf, arr, sp, rp)
         [] DecompM(d) = 3 /\ op = "transpose_y_to_x" -> D3_merge_yx(buf, arr, sp, rp)
         [] DecompM(d) = 3 /\ op = "transpose_y_to_z" -> D3_merge_yz(buf, arr, sp, rp)
         [] DecompM(d) = 3 /\ op = "transpose_z_to_y" -> D3_merge_zy(buf, arr, sp, rp)

\* The merge routine each gather and scatter hands to the engine.
gather_merge(op, buf, arr) ==
    IF op \in {"gather_x", "scatter_x"} THEN merge_gather_x(buf, arr)
    ELSE merge_gather_y(buf, arr)

\* pencil.rs transpose, from the collective call on.
transpose_return(r) ==
    /\ pc[r] = "in_coll"
    /\ may_step(r)
    /\ prog[ip[r]] \in Transposes
    /\ LET d    == decomp[r]
           op   == prog[ip[r]]
           sp   == SendPencil(d, op)
           rp   == RecvPencil(d, op)
           comm == subcomm_along_axis(sp, rp.axis_contig)
           k    == Len(posted[r])
           rc   == recv_counts_all_to_all(sp, rp)
           recv_buf == all_to_all_varcount_into(FilledBuf(len(rp), 0),
                          posted_by(comm.members, k), comm.rank, rc.counts, rc.displs)
       IN /\ collective_complete(comm.members, k)
          /\ return_to_caller(r, transpose_merge(d, op, recv_buf, rcv[r]))

\* A faulty gather in which every process receives and unpacks the whole array.
gather_return_everywhere(r) ==
    /\ pc[r] = "in_coll"
    /\ may_step(r)
    /\ prog[ip[r]] \in Gathers
    /\ LET d    == decomp[r]
           op   == prog[ip[r]]
           pen  == SendPencil(d, op)
           comm == subcomm_along_axis(pen, GatherAxis(op))
           k    == Len(posted[r])
           t    == recv_counts_gather_axis(pen, GatherAxis(op))
           recv_buf == gather_varcount_into_root(FilledBuf(len_global(pen), 0),
                          posted_by(comm.members, k), t.counts, t.displs)
       IN /\ collective_complete(comm.members, k)
          /\ return_to_caller(r, [ok |-> TRUE, arr |-> gather_merge(op, recv_buf, rcv[r])])

\* pencil.rs gather_into_root_along_axis, from the collective call on.
gather_return(r) ==
    /\ pc[r] = "in_coll"
    /\ may_step(r)
    /\ prog[ip[r]] \in Gathers
    /\ LET d    == decomp[r]
           op   == prog[ip[r]]
           pen  == SendPencil(d, op)
           comm == subcomm_along_axis(pen, GatherAxis(op))
           k    == Len(posted[r])
           t    == recv_counts_gather_axis(pen, GatherAxis(op))
           recv_buf == gather_varcount_into_root(FilledBuf(len_global(pen), 0),
                          posted_by(comm.members, k), t.counts, t.displs)
       IN /\ collective_complete(comm.members, k)
          /\ return_to_caller(r,
               [ok |-> TRUE,
                arr |-> IF comm.rank = 0 THEN gather_merge(op, recv_buf, rcv[r]) ELSE rcv[r]])

\* pencil.rs scatter_along_axis, from the collective call on.
scatter_return(r) ==
    /\ pc[r] = "in_coll"
    /\ may_step(r)
    /\ prog[ip[r]] \in Scatters
    /\ LET d    == decomp[r]
           op   == prog[ip[r]]
           pen  == RecvPencil(d, op)
           comm == subcomm_along_axis(pen, GatherAxis(op))
           k    == Len(posted[r])
           recv_buf == scatter_varcount_into(FilledBuf(len(pen), 0),
                          posted[comm.members[0]][k], comm.rank)
       IN /\ collective_complete(comm.members, k)
          /\ return_to_caller(r, [ok |-> TRUE, arr |-> gather_merge(op, recv_buf, rcv[r])])

Next ==
    \/ \E r \in Procs : D2_transpose_x_to_y(r)
    \/ \E r \in Procs : D2_transpose_y_to_x(r)
    \/ \E r \in Procs : gather_x(r)
    \/ \E r \in Procs : gather_y(r)
    \/ \E r \in Procs : scatter_x(r)
    \/ \E r \in Procs : scatter_y(r)
    \/ \E r \in Procs : D3_transpose_x_to_y(r)
    \/ \E r \in Procs : D3_transpose_y_to_x(r)
    \/ \E r \in Procs : D3_transpose_y_to_z(r)
    \/ \E r \in Procs : D3_transpose_z_to_y(r)
    \/ \E r \in Procs : transpose_return(r)
    \/ \E r \in Procs : gather_return(r)
    \/ \E r \in Procs : scatter_return(r)

Spec == Init /\ [][Next]_vars

\* Process r takes a step. Every call and every return of r changes pc[r]
\* and no step of another process does, and r has a call or a return to take
\* when can_step(r); the action names the steps of r without computing the
\* arrays they produce.
Advance(r) ==
    /\ can_step(r)
    /\ \E at \in {"ready", "in_coll", "failed"} \ {pc[r]} : pc' = [pc EXCEPT ![r] = at]

\* Every process is a running operating-system process: one that can take a
\* step, a call of its program or the return from a completed collective
\* call, eventually takes it.
SpecFair ==
    /\ InitFair
    /\ [][Next]_vars
    /\ \A r \in 0..(MaxFairProcs - 1) : WF_pc(r \in Procs /\ Advance(r))

\* Free interleaving of running processes whose callers may hand in a wrong
\* buffer: a process that can take a step eventually takes it, and a process
\* that has failed takes none.
SpecFreeFair ==
    /\ Init
    /\ [][Next]_vars
    /\ \A r \in 0..(MaxFreeProcs - 1) : WF_pc(r \in Procs /\ Advance(r))

SpecRankOrder == InitRankOrder /\ [][Next]_vars

----------------------------------------------------------------------------
\* What the operations compute, on the history data[r] of the arrays process
\* r has held: data[r][k] is the send array of its k-th operation and
\* data[r][k + 1] the receive array it returned.

\* Process r has returned from its k-th operation.
Completed(r, k) == k >= 1 /\ Len(data[r]) > k

\* The processes of r's sub-group in its k-th operation.
GroupOf(r, k) ==
    LET members == CommOf(r, prog[k]).members
    IN {members[s] : s \in DOMAIN members}

\* The root of r's sub-group in its k-th operation.
RootOf(r, k) == CommOf(r, prog[k]).members[0]

\* The k-th send array of process q holds f(global index) in the layout of
\* the pencil the operation sends from.
SendsPencilData(q, k) ==
    /\ Len(data[q]) >= k
    /\ data[q][k] = test_array_from_pencil(SendPencil(decomp[q], prog[k]))

\* The global array f(global index).
GlobalData(d) == test_array(d.n_global, Vec(<<0, 0>>))

\* C1. Transpose correctness against global indexing: whenever every process
\* of a sub-group sends f(global index) in the layout of the source pencil
\* of a Decomp2 or Decomp3 transpose, no process fails in it and each process
\* that has returned holds f(global index) at every local position of the
\* destination pencil.
C1_TransposeCorrect ==
    \A r \in Procs : \A k \in 1..ip[r] :
        (prog[k] \in Transposes /\ \A q \in GroupOf(r, k) : SendsPencilData(q, k)) =>
            /\ Len(data[r]) = k => pc[r] # "failed"
            /\ Completed(r, k) =>
                  data[r][k + 1] = test_array_from_pencil(RecvPencil(decomp[r], prog[k]))

\* Every process of a 2 x 2 grid has returned from transpose_y_to_z of a grid
\* that does not split evenly.
C1_Witness ==
    /\ Len(prog) >= 1 /\ prog[1] = "transpose_y_to_z"
    /\ \A r \in Procs : Completed(r, 1) /\ SendsPencilData(r, 1)
    /\ decomp[0].y_pencil.comm.dims = Vec(<<2, 2>>)
    /\ decomp[0].n_global = Vec(<<3, 2, 3>>)

\* Operations j+1 .. k of process r are transposes that lead back to the
\* pencil operation j+1 started from.
ReturnsToStart(r, j, k) ==
    /\ j < k
    /\ \A i \in (j + 1)..k : prog[i] \in Transposes /\ Completed(r, i)
    /\ \A i \in (j + 1)..(k - 1) :
          RecvPencil(decomp[r], prog[i]).axis_contig
            = SendPencil(decomp[r], prog[i + 1]).axis_contig
    /\ RecvPencil(decomp[r], prog[k]).axis_contig
         = SendPencil(decomp[r], prog[j + 1]).axis_contig

\* C2. Round-trip transpose: a transpose followed by its reverse, and any
\* longer sequence of transposes that returns to the starting pencil such as
\* x->y->z->y->x, gives every process back the array it started with.
C2_RoundTrip ==
    \A r \in Procs : \A j \in 0..ip[r] : \A k \in 0..ip[r] :
        ReturnsToStart(r, j, k) => data[r][k + 1] = data[r][j + 1]

\* Every process of a 2 x 2 grid has completed the cycle x->y->z->y->x.
C2_Witness ==
    /\ prog = <<"transpose_x_to_y", "transpose_y_to_z", "transpose_z_to_y", "transpose_y_to_x">>
    /\ \A r \in Procs : ReturnsToStart(r, 0, 4)
    /\ decomp[0].x_pencil.comm.dims = Vec(<<2, 2>>)
    /\ decomp[0].n_global = Vec(<<2, 3, 3>>)

\* C5. Gather to root: when every process sends f(global index) in the layout
\* of the x-pencil to gather_x, or of the y-pencil to gather_y, no process
\* fails and the root's receive array is the global array f(global index).
C5_GatherToRoot ==
    \A r \in Procs : \A k \in 1..ip[r] :
        (prog[k] \in Gathers /\ \A q \in GroupOf(r, k) : SendsPencilData(q, k)) =>
            /\ Len(data[r]) = k => pc[r] # "failed"
            /\ (Completed(r, k) /\ r = RootOf(r, k)) => data[r][k + 1] = GlobalData(decomp[r])

\* The root of two processes has returned from gather_x of a [2,3] grid.
C5_Witness ==
    /\ Len(prog) >= 1 /\ prog[1] = "gather_x"
    /\ \A q \in Procs : SendsPencilData(q, 1)
    /\ Completed(0, 1)
    /\ decomp[0].x_pencil.comm.dims = Vec(<<2>>)
    /\ decomp[0].n_global = Vec(<<2, 3>>)

\* C6. Scatter from root: when the root sends the global array f(global index)
\* to scatter_x or scatter_y, every process that has returned, the root
\* included, holds f(global index) at each position of its chunk of the
\* x-pencil or y-pencil, whatever the other processes handed in as send array.
C6_ScatterFromRoot ==
    \A r \in Procs : \A k \in 1..ip[r] :
        (/\ prog[k] \in Scatters
         /\ data[RootOf(r, k)][k] = GlobalData(decomp[r])
         /\ \A q \in GroupOf(r, k) : Len(data[q]) >= k /\ data[q][k].shape = decomp[q].n_global) =>
            /\ Len(data[r]) = k => pc[r] # "failed"
            /\ Completed(r, k) =>
                  data[r][k + 1] = test_array_from_pencil(RecvPencil(decomp[r], prog[k]))

\* Both processes have returned from scatter_y of a [3,2] grid, the send
\* array of the non-root process holding something else than the root's.
C6_Witness ==
    /\ Len(prog) >= 1 /\ prog[1] = "scatter_y"
    /\ \A q \in Procs : Completed(q, 1)
    /\ decomp[0].y_pencil.comm.dims = Vec(<<2>>)
    /\ decomp[0].n_global = Vec(<<3, 2>>)
    /\ data[0][1] = GlobalData(decomp[0])
    /\ data[1][1] = Filled(decomp[1].n_global, Blank - 1)

\* The gather that undoes a scatter.
GatherOf(op) == IF op = "scatter_x" THEN "gather_x" ELSE "gather_y"

\* C7. Gather/scatter inverse: after scatter_x and then gather_x (or
\* scatter_y and then gather_y) the root holds the global array it scattered.
C7_ScatterGather ==
    \A r \in Procs : \A k \in 2..ip[r] :
        (/\ prog[k - 1] \in Scatters /\ prog[k] = GatherOf(prog[k - 1])
         /\ Completed(r, k) /\ r = RootOf(r, k)) =>
            data[r][k + 1] = data[r][k - 1]

\* The root of two processes has scattered a [3,3] array along x and
\* gathered it back.
C7_Witness ==
    /\ Len(prog) >= 2 /\ prog[1] = "scatter_x" /\ prog[2] = "gather_x"
    /\ Completed(0, 2)
    /\ data[0][1] = GlobalData(decomp[0])
    /\ decomp[0].x_pencil.comm.dims = Vec(<<2>>)
    /\ decomp[0].n_global = Vec(<<3, 3>>)

\* The shapes an operation expects of the caller's send and receive arrays.
SendShape(d, op) == IF op \in Scatters THEN d.n_global ELSE shape(SendPencil(d, op))
RecvShape(d, op) == IF op \in Gathers THEN d.n_global ELSE shape(RecvPencil(d, op))

\* Process r is in, or has failed in, an operation it called with a send or
\* receive array of another shape than the operation expects.
CalledWithWrongShape(r) ==
    /\ ip[r] >= 1 /\ Len(data[r]) = ip[r]
    /\ \/ Last(data[r]).shape # SendShape(decomp[r], prog[ip[r]])
       \/ rcv[r].shape # RecvShape(decomp[r], prog[ip[r]])

\* C10. Shape contract: a transpose, gather or scatter of Decomp2 or Decomp3
\* called with a buffer whose shape differs from the pencil's shape (or, for
\* the gathered and the scattered array, from the global shape) fails on that
\* process with nothing packed, no collective call issued, and the receive
\* array as the caller handed it in.
C10_ShapeContract ==
    \A r \in Procs : CalledWithWrongShape(r) =>
        /\ pc[r] = "failed"
        /\ send_buf[r] = <<>>
        /\ Len(posted[r]) = ip[r] - 1
        /\ rcv[r] = Filled(rcv[r].shape, Blank)

\* A process has failed on a receive array one row too long while another
\* process, whose arrays fit, is in the collective call.
C10_Witness ==
    \E r \in Procs : \E q \in Procs :
        /\ CalledWithWrongShape(r) /\ pc[r] = "failed"
        /\ Last(data[r]).shape = SendShape(decomp[r], prog[ip[r]])
        /\ pc[q] = "in_coll"

----------------------------------------------------------------------------
\* Stand-alone calls of the library's pure functions: no process grid runs.

NoGrid ==
    /\ decomp = <<>> /\ prog = <<>> /\ ip = <<>> /\ pc = <<>> /\ data = <<>>
    /\ rcv = <<>> /\ send_buf = <<>> /\ posted = <<>> /\ sched = "none" /\ start = "none"

InitCall == NoGrid /\ arg = NoCall /\ ret = NoCall

grid_vars == <<decomp, prog, ip, pc, data, rcv, send_buf, posted, sched, start>>

Panicked == [panicked |-> TRUE]
Returned(v) == [panicked |-> FALSE, val |-> v]

\* Distribution::split as a call: it panics on a division by zero, on an
\* index out of bounds and, in a build with overflow checks, when
\* `size - 1` underflows; a build without them wraps.
split_call(n_global, nprocs, nrank, overflow_checks) ==
    IF nprocs = 0 THEN Panicked
    ELSE IF n_global < nprocs /\ overflow_checks THEN Panicked
    ELSE IF ~(nrank < nprocs) THEN Panicked
    ELSE Returned(split(n_global, nprocs, nrank))

\* Distribution::contiguous as a call: `n_global - 1` underflows for 0.
contiguous_call(n_global, overflow_checks) ==
    IF n_global = 0 /\ overflow_checks THEN Panicked
    ELSE Returned(contiguous(n_global))

call_split ==
    /\ \E n_global \in 0..MaxSplitN : \E nprocs \in 0..MaxSplitP :
       \E nrank \in 0..MaxSplitP : \E overflow_checks \in BOOLEAN :
         /\ arg' = [fn |-> "split", n_global |-> n_global, nprocs |-> nprocs, nrank |-> nrank]
         /\ ret' = split_call(n_global, nprocs, nrank, overflow_checks)
    /\ UNCHANGED grid_vars

call_contiguous ==
    /\ \E n_global \in 0..MaxSplitN : \E overflow_checks \in BOOLEAN :
         /\ arg' = [fn |-> "contiguous", n_global |-> n_global]
         /\ ret' = contiguous_call(n_global, overflow_checks)
    /\ UNCHANGED grid_vars

NextSplit ==
    \/ call_split
    \/ call_contiguous

SpecSplit == InitCall /\ [][NextSplit]_vars

\* The call made is split(n, p, rank) with n >= p >= 1 and rank < p.
SplitCalled ==
    /\ arg.fn = "split"
    /\ arg.n_global >= arg.nprocs /\ arg.nprocs >= 1 /\ arg.nrank < arg.nprocs

\* C3. Partition completeness: for n >= p >= 1, split(n, p, rank) returns
\* chunk sizes that sum to n, the first chunk starts at 0, the last ends at
\* n - 1, each chunk starts right after the one before it, each size is
\* en - st + 1, and so the chunks are pairwise disjoint and cover 0..n-1.
C3_PartitionComplete ==
    SplitCalled =>
        /\ ~ret.panicked
        /\ LET d == ret.val
               n == arg.n_global
               p == arg.nprocs
               chunk(i) == d.st_procs[i]..d.en_procs[i]
           IN /\ DOMAIN d.sz_procs = 0..(p - 1)
              /\ DOMAIN d.st_procs = 0..(p - 1)
              /\ DOMAIN d.en_procs = 0..(p - 1)
              /\ VSum(d.sz_procs) = n
              /\ d.st_procs[0] = 0
              /\ d.en_procs[p - 1] = n - 1
              /\ \A i \in 0..(p - 2) : d.st_procs[i + 1] = d.en_procs[i] + 1
              /\ \A i \in 0..(p - 1) : d.sz_procs[i] = d.en_procs[i] - d.st_procs[i] + 1
              /\ \A i \in 0..(p - 1) : \A j \in 0..(p - 1) :
                    i # j => chunk(i) \cap chunk(j) = {}
              /\ UNION {chunk(i) : i \in 0..(p - 1)} = 0..(n - 1)

\* A split with a remainder over at least three ranks has returned.
C3_Witness ==
    /\ SplitCalled /\ ~ret.panicked
    /\ arg.nprocs >= 3 /\ arg.n_global % arg.nprocs # 0
    /\ ret.val.st = ret.val.st_procs[arg.nrank]

\* C4. Balance and placement of the remainder: for n >= p >= 1, with
\* base = n / p and remainder = n - base * p, the first p - remainder ranks get
\* base points and the last remainder ranks get base + 1; the largest and the
\* smallest chunk differ by at most one point.
C4_RemainderOnLastRanks ==
    SplitCalled =>
        /\ ~ret.panicked
        /\ LET sz   == ret.val.sz_procs
               p    == arg.nprocs
               base == arg.n_global \div p
               remainder == arg.n_global - base * p
           IN /\ \A i \in 0..(p - 1) :
                    sz[i] = IF i < p - remainder THEN base ELSE base + 1
              /\ \A i \in 0..(p - 1) : \A j \in 0..(p - 1) : sz[i] - sz[j] <= 1

\* A split whose remainder is at least two and smaller than p - 1 has
\* returned: several ranks on either side of the boundary.
C4_Witness ==
    /\ SplitCalled /\ ~ret.panicked
    /\ LET remainder == arg.n_global % arg.nprocs
       IN remainder >= 2 /\ arg.nprocs - remainder >= 2
    /\ ret.val.sz = ret.val.sz_procs[arg.nrank]

----------------------------------------------------------------------------
\* The count tables of pencil.rs, one table built for one pencil of one process.

\* The grids whose tables are built: 2-D grids of up to MaxCountN points an
\* axis, 3-D grids of up to MaxN, on every process grid that can split them.
CountGrids(M) ==
    {g \in (IF M = 2 THEN [0..1 -> 1..MaxCountN] ELSE GlobalShapes(3)) \X Grids(M) :
        world_size(g[2]) <= MaxProcs /\ Splittable(g[1], g[2])}

\* The pencils the processes of these grids hold.
CountPencils ==
    UNION {UNION {{Pencil_new(rank, g[1], axis_contig, g[2]) :
                      rank \in 0..(world_size(g[2]) - 1), axis_contig \in 0..(M - 1)} :
                  g \in CountGrids(M)} : M \in {2, 3}}

\* The same grid and process, another contiguous axis.
Repencil(pencil, axis_contig) ==
    [comm |-> pencil.comm,
     dists |-> new_dists(<<>>, 0, 0, shape_global(pencil), axis_contig, pencil.comm),
     axis_contig |-> axis_contig]

call_send_counts ==
    /\ arg = NoCall
    /\ \E send \in CountPencils : \E axis \in DOMAIN send.dists :
         /\ arg' = [fn |-> "send_counts_all_to_all", send |-> send,
                    recv |-> Repencil(send, axis)]
         /\ ret' = send_counts_all_to_all(send, Repencil(send, axis))
    /\ UNCHANGED grid_vars

call_recv_counts ==
    /\ arg = NoCall
    /\ \E send \in CountPencils : \E axis \in DOMAIN send.dists :
         /\ arg' = [fn |-> "recv_counts_all_to_all", send |-> send,
                    recv |-> Repencil(send, axis)]
         /\ ret' = recv_counts_all_to_all(send, Repencil(send, axis))
    /\ UNCHANGED grid_vars

call_gather_counts ==
    /\ arg = NoCall
    /\ \E pencil \in CountPencils : \E axis \in 0..PencilM(pencil) :
         /\ arg' = [fn |-> "recv_counts_gather_axis", pencil |-> pencil, axis |-> axis]
         /\ ret' = recv_counts_gather_axis(pencil, axis)
    /\ UNCHANGED grid_vars

NextCounts ==
    \/ call_send_counts
    \/ call_recv_counts
    \/ call_gather_counts

SpecCounts == InitCall /\ [][NextCounts]_vars

\* The call made builds the gather table of a pencil along a split axis.
GatherTableCalled ==
    /\ arg.fn = "recv_counts_gather_axis"
    /\ arg.axis < PencilM(arg.pencil) /\ arg.axis # arg.pencil.axis_contig

\* The call made builds a table for a transpose between pencils whose
\* contiguous axes are neighbours: x and y, or y and z.
TransposeTableCalled(fn) ==
    /\ arg.fn = fn
    /\ arg.send.axis_contig - arg.recv.axis_contig \in {-1, 1}

\* Product of the caller's local sizes on every axis but `axis`.
OtherLocalSizes(pencil, axis) ==
    VProd([i \in DOMAIN pencil.dists |-> IF i = axis THEN 1 ELSE pencil.dists[i].sz])

\* displs[0] = 0 and displs[i] = counts[0] + ... + counts[i-1].
ExclusivePrefixSums(table) ==
    /\ DOMAIN table.displs = DOMAIN table.counts
    /\ \A i \in DOMAIN table.counts : table.displs[i] = VSumUpTo(table.counts, i - 1)

\* C8. Gather/scatter count table: recv_counts_gather_axis(pencil, axis) has
\* one count for each rank r of the sub-group along axis, the size of r's chunk
\* of the axis times the product of the caller's local sizes on all other
\* axes; global shape [6,5] on 2 processes, x-pencil, axis 1 gives counts
\* [12,18] and displacements [0,12].
C8_GatherCounts ==
    GatherTableCalled =>
        /\ ret.ok
        /\ LET pencil == arg.pencil
               nprocs == pencil.comm.dims[IF arg.axis < pencil.axis_contig
                                          THEN arg.axis ELSE arg.axis - 1]
               n_axis == shape_global(pencil)[arg.axis]
           IN /\ DOMAIN ret.counts = 0..(nprocs - 1)
              /\ \A r \in 0..(nprocs - 1) :
                    ret.counts[r] = split(n_axis, nprocs, r).sz * OtherLocalSizes(pencil, arg.axis)
              /\ (shape_global(pencil) = Vec(<<6, 5>>) /\ pencil.comm.dims = Vec(<<2>>)
                    /\ pencil.axis_contig = 0)
                   => ret.counts = Vec(<<12, 18>>) /\ ret.displs = Vec(<<0, 12>>)

\* The table of the [6,5] grid on 2 processes has been built.
C8_Witness ==
    /\ GatherTableCalled /\ ret.ok
    /\ shape_global(arg.pencil) = Vec(<<6, 5>>)
    /\ arg.pencil.comm.dims = Vec(<<2>>)
    /\ arg.pencil.axis_contig = 0
    /\ ret.counts[1] = 18

\* The displacements of every table built are the exclusive prefix sums of
\* its counts; the send counts of a transpose sum to send.len(), its receive
\* counts to recv.len().
TableSums ==
    /\ (arg.fn # "none" /\ ret.ok) => ExclusivePrefixSums(ret)
    /\ TransposeTableCalled("send_counts_all_to_all") =>
          ret.ok /\ VSum(ret.counts) = len(arg.send)
    /\ TransposeTableCalled("recv_counts_all_to_all") =>
          ret.ok /\ VSum(ret.counts) = len(arg.recv)

\* Every split axis of the pencil other than `axis` is held by one process.
OnlySplitAxis(pencil, axis) ==
    \A i \in DOMAIN pencil.dists : (i # axis /\ i # pencil.axis_contig) =>
        VLen(pencil.dists[i].sz_procs) = 1

\* C9 (as amended). Count/displacement sums: displs[0] = 0 and displs[i] =
\* sum(counts[0..i]) for every table; for a transpose the send counts sum to
\* send_pencil.len() and the receive counts to recv_pencil.len(); for
\* gather/scatter along an axis the counts sum to the global length of that
\* axis times the caller's local sizes on the other axes, which is
\* pencil.len_global() exactly when no other split axis is shared among
\* several processes: for every 2-D pencil, not for every 3-D pencil.
C9_CountSums ==
    /\ TableSums
    /\ GatherTableCalled =>
          /\ ret.ok
          /\ VSum(ret.counts)
                = shape_global(arg.pencil)[arg.axis] * OtherLocalSizes(arg.pencil, arg.axis)
          /\ VSum(ret.counts) = len_global(arg.pencil)
                <=> OnlySplitAxis(arg.pencil, arg.axis)
          /\ PencilM(arg.pencil) = 2 => VSum(ret.counts) = len_global(arg.pencil)

\* The gather table of a 3-D pencil on a 2 x 2 process grid has been built,
\* with counts that differ from rank to rank.
C9_Witness ==
    /\ GatherTableCalled /\ ret.ok
    /\ PencilM(arg.pencil) = 3
    /\ arg.pencil.comm.dims = Vec(<<2, 2>>)
    /\ ret.counts[0] # ret.counts[1]
    /\ ret.displs[1] = ret.counts[0]

\* C9 as stated: the gather/scatter counts sum to pencil.len_global() for
\* every pencil and every split axis, 3-D pencils included.
C9_AsStated ==
    /\ TableSums
    /\ GatherTableCalled =>
          ret.ok /\ VSum(ret.counts) = len_global(arg.pencil)

\* The axes that are contiguous in neither pencil of a transpose table call.
CommonSplitAxes == DOMAIN arg.send.dists \ {arg.send.axis_contig, arg.recv.axis_contig}

\* C11 as stated. Unsupported decomposition: send_counts_all_to_all returns
\* no count table when some axis other than the two contiguous axes is split
\* differently in the two pencils, in particular when the calling process
\* owns different index ranges of it in the two pencils.
C11_AsStated ==
    (/\ arg.fn = "send_counts_all_to_all"
     /\ arg.send.axis_contig # arg.recv.axis_contig
     /\ \E i \in CommonSplitAxes :
           \/ arg.send.dists[i].st # arg.recv.dists[i].st
           \/ arg.send.dists[i].en # arg.recv.dists[i].en)
        => ~ret.ok

----------------------------------------------------------------------------
\* The constructors, called once on one process of a world of `world`
\* processes.

\* Some split axis is shorter than its process count: Distribution::split
\* underflows, which panics in a build with overflow checks.
split_underflows(n_global, axis_contig, cart_ndims) ==
    \E i \in DOMAIN n_global : i # axis_contig /\
        n_global[i] < cart_ndims[IF i < axis_contig THEN i ELSE i - 1]

\* A faulty Pencil::new that never compares the process grid with the world.
Pencil_new_call_any_world(world, rank, n_global, axis_contig, cart_ndims, overflow_checks) ==
    IF ~(axis_contig < VLen(n_global)) THEN Panicked
    ELSE IF VLen(cart_ndims) # VLen(n_global) - 1 THEN Panicked
    ELSE IF overflow_checks /\ split_underflows(n_global, axis_contig, cart_ndims) THEN Panicked
    ELSE Returned(Pencil_new(rank % world_size(cart_ndims), n_global, axis_contig, cart_ndims))

\* Pencil::new as a call: its three asserts in order, then the distributions.
Pencil_new_call(world, rank, n_global, axis_contig, cart_ndims, overflow_checks) ==
    IF ~(axis_contig < VLen(n_global)) THEN Panicked
    ELSE IF VLen(cart_ndims) # VLen(n_global) - 1 THEN Panicked
    ELSE IF world_size(cart_ndims) # world THEN Panicked
    ELSE IF overflow_checks /\ split_underflows(n_global, axis_contig, cart_ndims) THEN Panicked
    ELSE Returned(Pencil_new(rank, n_global, axis_contig, cart_ndims))

\* Decomp2::new and Decomp3::new as calls: one Pencil::new for each axis.
Decomp_new_call(world, rank, n_global, cart_dims, overflow_checks) ==
    IF \E axis_contig \in DOMAIN n_global :
          Pencil_new_call(world, rank, n_global, axis_contig, cart_dims, overflow_checks).panicked
    THEN Panicked
    ELSE Returned(IF VLen(n_global) = 2 THEN Decomp2_new(rank, n_global, cart_dims)
                  ELSE Decomp3_new(rank, n_global, cart_dims))

\* Process grids of N dimensions, each of up to MaxProcs processes.
GridsN(N) == [0..(N - 1) -> 1..MaxProcs]

call_Pencil_new ==
    /\ arg = NoCall
    /\ \E M \in {2, 3} : \E N \in {1, 2} : \E n_global \in GlobalShapes(M) :
       \E cart_ndims \in GridsN(N) : \E axis_contig \in 0..M :
       \E world \in 1..MaxProcs : \E rank \in 0..(MaxProcs - 1) :
       \E overflow_checks \in BOOLEAN :
         /\ rank < world
         /\ arg' = [fn |-> "Pencil::new", world |-> world, rank |-> rank,
                    n_global |-> n_global, axis_contig |-> axis_contig,
                    cart_ndims |-> cart_ndims]
         /\ ret' = Pencil_new_call(world, rank, n_global, axis_contig, cart_ndims,
                                    overflow_checks)
    /\ UNCHANGED grid_vars

call_Decomp2_new ==
    /\ arg = NoCall
    /\ \E n_global \in GlobalShapes(2) : \E cart_dims \in GridsN(1) :
       \E world \in 1..MaxProcs : \E rank \in 0..(MaxProcs - 1) :
       \E overflow_checks \in BOOLEAN :
         /\ rank < world
         /\ arg' = [fn |-> "Decomp2::new", world |-> world, rank |-> rank,
                    n_global |-> n_global, cart_ndims |-> cart_dims]
         /\ ret' = Decomp_new_call(world, rank, n_global, cart_dims, overflow_checks)
    /\ UNCHANGED grid_vars

call_Decomp3_new ==
    /\ arg = NoCall
    /\ \E n_global \in GlobalShapes(3) : \E cart_dims \in GridsN(2) :
       \E world \in 1..MaxProcs : \E rank \in 0..(MaxProcs - 1) :
       \E overflow_checks \in BOOLEAN :
         /\ rank < world
         /\ arg' = [fn |-> "Decomp3::new", world |-> world, rank |-> rank,
                    n_global |-> n_global, cart_ndims |-> cart_dims]
         /\ ret' = Decomp_new_call(world, rank, n_global, cart_dims, overflow_checks)
    /\ UNCHANGED grid_vars

NextNew ==
    \/ call_Pencil_new
    \/ call_Decomp2_new
    \/ call_Decomp3_new

SpecNew == InitCall /\ [][NextNew]_vars

\* The process grid handed to the constructor does not have as many
\* processes as the world.
WrongProcessCount == world_size(arg.cart_ndims) # arg.world

\* C12. Construction errors: Pencil::new produces no pencil when
\* axis_contig >= M, when the process grid does not have M - 1 dimensions, or
\* when the product of its dimensions differs from the number of processes;
\* Decomp2::new and Decomp3::new produce no decomposition when that product
\* differs (their axes and dimensionalities are fixed by their types).
C12_ConstructionErrors ==
    /\ (arg.fn = "Pencil::new"
          /\ (\/ arg.axis_contig >= VLen(arg.n_global)
              \/ VLen(arg.cart_ndims) # VLen(arg.n_global) - 1
              \/ WrongProcessCount))
         => ret.panicked
    /\ (arg.fn \in {"Decomp2::new", "Decomp3::new"} /\ WrongProcessCount)
         => ret.panicked

\* Pencil::new has failed on a 2 x 2 grid in a world of three processes, the
\* axis and the dimensionality being in order.
C12_Witness ==
    /\ arg.fn = "Pencil::new" /\ ret.panicked
    /\ arg.axis_contig < VLen(arg.n_global)
    /\ arg.cart_ndims = Vec(<<2, 2>>) /\ VLen(arg.n_global) = 3
    /\ arg.world = 3

----------------------------------------------------------------------------
\* The topology queries of a pencil, one query for one pencil of one process.

\* Pencil::nprocs_along_axis as a call.
nprocs_along_axis_call(pencil, axis) ==
    IF map_dim_to_cart_dim(pencil, axis) = -1 THEN Panicked
    ELSE Returned(nprocs_along_axis(pencil, axis))

\* Pencil::subcomm_along_axis as a call.
subcomm_along_axis_call(pencil, axis) ==
    IF map_dim_to_cart_dim(pencil, axis) = -1 THEN Panicked
    ELSE Returned(subcomm_along_axis(pencil, axis))

\* recv_counts_gather_axis as a call.
recv_counts_gather_axis_call(pencil, axis) ==
    LET table == recv_counts_gather_axis(pencil, axis)
    IN IF table.ok THEN Returned(table) ELSE Panicked

query_nprocs_along_axis ==
    /\ arg = NoCall
    /\ \E pencil \in CountPencils : \E axis \in 0..PencilM(pencil) :
         /\ arg' = [fn |-> "nprocs_along_axis", pencil |-> pencil, axis |-> axis]
         /\ ret' = nprocs_along_axis_call(pencil, axis)
    /\ UNCHANGED grid_vars

query_subcomm_along_axis ==
    /\ arg = NoCall
    /\ \E pencil \in CountPencils : \E axis \in 0..PencilM(pencil) :
         /\ arg' = [fn |-> "subcomm_along_axis", pencil |-> pencil, axis |-> axis]
         /\ ret' = subcomm_along_axis_call(pencil, axis)
    /\ UNCHANGED grid_vars

query_recv_counts_gather_axis ==
    /\ arg = NoCall
    /\ \E pencil \in CountPencils : \E axis \in 0..PencilM(pencil) :
         /\ arg' = [fn |-> "recv_counts_gather_axis", pencil |-> pencil, axis |-> axis]
         /\ ret' = recv_counts_gather_axis_call(pencil, axis)
    /\ UNCHANGED grid_vars

NextQuery ==
    \/ query_nprocs_along_axis
    \/ query_subcomm_along_axis
    \/ query_recv_counts_gather_axis

SpecQuery == InitCall /\ [][NextQuery]_vars

\* C13. Topology queries reject the contiguous axis: nprocs_along_axis,
\* subcomm_along_axis and recv_counts_gather_axis fail when the axis is the
\* contiguous axis of the pencil or is not below M; for every other axis they
\* return, and nprocs_along_axis returns the number of processes that split
\* the axis, the number of chunks the pencil divides it into.
C13_QueriesRejectContiguous ==
    arg.fn \in {"nprocs_along_axis", "subcomm_along_axis", "recv_counts_gather_axis"} =>
        IF arg.axis = arg.pencil.axis_contig \/ arg.axis >= PencilM(arg.pencil)
        THEN ret.panicked
        ELSE /\ ~ret.panicked
             /\ arg.fn = "nprocs_along_axis" =>
                   /\ ret.val = VLen(arg.pencil.dists[arg.axis].sz_procs)
                   /\ ret.val = arg.pencil.comm.dims[IF arg.axis < arg.pencil.axis_contig
                                                     THEN arg.axis ELSE arg.axis - 1]

\* nprocs_along_axis has failed on the contiguous axis of a y-pencil of a
\* 3-D grid on a 2 x 2 process grid.
C13_Witness ==
    /\ arg.fn = "nprocs_along_axis" /\ ret.panicked
    /\ arg.axis = 1 /\ arg.pencil.axis_contig = 1
    /\ arg.pencil.comm.dims = Vec(<<2, 2>>)

----------------------------------------------------------------------------
\* C14. Shape accessors: for every pencil that Pencil::new returns for a global
\* shape whose split axes are each at least as long as their process count,
\* shape() is the per-axis local size with the full global length on the
\* contiguous axis, and shape_global(), the per-axis sum of the chunk sizes of
\* all processes, is the n_global given to Pencil::new.
C14_ShapeAccessors ==
    (/\ arg.fn = "Pencil::new"
     /\ ~ret.panicked
     /\ ~split_underflows(arg.n_global, arg.axis_contig, arg.cart_ndims))
        => /\ DOMAIN shape(ret.val) = DOMAIN arg.n_global
           /\ \A i \in DOMAIN arg.n_global :
                 /\ shape(ret.val)[i] = ret.val.dists[i].sz
                 /\ shape(ret.val)[i] = ret.val.dists[i].en - ret.val.dists[i].st + 1
           /\ shape(ret.val)[arg.axis_contig] = arg.n_global[arg.axis_contig]
           /\ shape_global(ret.val) = arg.n_global

\* Pencil::new has returned the z-pencil of the last process of a 2 x 2 grid
\* for the global shape [3, 3, 2]: both split axes have a remainder.
C14_Witness ==
    /\ arg.fn = "Pencil::new" /\ ~ret.panicked
    /\ arg.n_global = Vec(<<3, 3, 2>>) /\ arg.cart_ndims = Vec(<<2, 2>>)
    /\ arg.axis_contig = 2 /\ arg.rank = 3
    /\ shape(ret.val) = Vec(<<2, 2, 2>>)

----------------------------------------------------------------------------
\* The pencils a decomposition holds, by name.
HeldPencils(d) ==
    IF DecompM(d) = 2 THEN [x |-> d.x_pencil, y |-> d.y_pencil]
    ELSE [x |-> d.x_pencil, y |-> d.y_pencil, z |-> d.z_pencil]

\* C15. Decomp pencils differ in contiguous axis only: in every state, on every
\* process, the x-, y- and z-pencil of the decomposition have the contiguous
\* axes 0, 1 and 2, so any two of them differ in axis_contig; all of them
\* cover the same n_global on the same process grid at the same coordinates;
\* and no step of any operation changes a pencil.
C15_PencilsFixed ==
    /\ [](\A r \in Procs :
            LET d == decomp[r]  held == HeldPencils(d)
            IN /\ held.x.axis_contig = 0 /\ held.y.axis_contig = 1
               /\ DecompM(d) = 3 => held.z.axis_contig = 2
               /\ \A a \in DOMAIN held : \A b \in DOMAIN held :
                     /\ a # b => held[a].axis_contig # held[b].axis_contig
                     /\ shape_global(held[a]) = d.n_global
                     /\ held[a].comm = held[b].comm
               /\ \A q \in Procs :
                     /\ decomp[q].n_global = d.n_global
                     /\ decomp[q].x_pencil.comm.dims = d.x_pencil.comm.dims)
    /\ [][decomp' = decomp]_vars

\* Every process of a 2 x 2 grid has returned from four transposes of a 3-D
\* decomposition.
C15_Witness ==
    /\ Len(prog) = 4
    /\ \A r \in Procs : Completed(r, 4)
    /\ \A k \in 1..4 : prog[k] \in Transposes
    /\ decomp[0].x_pencil.comm.dims = Vec(<<2, 2>>)

----------------------------------------------------------------------------
\* C16. Matching counts across peers: in every transpose, for every two
\* processes p and q of the exchanging sub-group, the count that the send table
\* p has posted assigns to q is the count q's receive table expects from p,
\* the receive table being send_counts_all_to_all with the pencils swapped.
C16_MatchingCounts ==
    \A p \in Procs : \A k \in 1..Len(posted[p]) :
        prog[k] \in Transposes =>
            \A q \in GroupOf(p, k) :
                LET op      == prog[k]
                    recv_q  == recv_counts_all_to_all(SendPencil(decomp[q], op),
                                                      RecvPencil(decomp[q], op))
                IN /\ recv_q = send_counts_all_to_all(RecvPencil(decomp[q], op),
                                                      SendPencil(decomp[q], op))
                   /\ recv_q.ok
                   /\ posted[p][k].counts[CommOf(q, op).rank]
                        = recv_q.counts[CommOf(p, op).rank]

\* Two processes of one sub-group of a 2 x 2 grid have posted send tables for
\* transpose_x_to_y whose counts differ from peer to peer.
C16_Witness ==
    /\ Len(prog) >= 1 /\ prog[1] = "transpose_x_to_y"
    /\ decomp[0].x_pencil.comm.dims = Vec(<<2, 2>>)
    /\ \E p \in Procs : \E q \in GroupOf(p, 1) \ {p} :
          /\ Len(posted[p]) >= 1 /\ Len(posted[q]) >= 1
          /\ posted[p][1].counts[0] # posted[p][1].counts[1]
          /\ posted[p][1].counts # posted[q][1].counts

----------------------------------------------------------------------------
\* C17. Per-peer send counts: a table that send_counts_all_to_all(send, recv)
\* returns has exactly send.nprocs_along_axis(recv.axis_contig) entries, and
\* its entry for destination rank r is the product of send's local size on
\* every axis split in both pencils, send's local size on recv's contiguous
\* axis, and recv.dists[i].sz_procs[r] on send's contiguous axis i.
C17_PerPeerCounts ==
    (arg.fn = "send_counts_all_to_all" /\ ret.ok) =>
        /\ DOMAIN ret.counts
              = 0..(nprocs_along_axis(arg.send, arg.recv.axis_contig) - 1)
        /\ \A r \in DOMAIN ret.counts :
              ret.counts[r]
                = VProd([i \in DOMAIN arg.send.dists |->
                           IF i \in CommonSplitAxes THEN arg.send.dists[i].sz ELSE 1])
                    * arg.send.dists[arg.recv.axis_contig].sz
                    * arg.recv.dists[arg.send.axis_contig].sz_procs[r]

\* The send table from the y-pencil to the z-pencil has been returned on a
\* 2 x 2 grid where the destinations' chunks differ and every factor counts.
C17_Witness ==
    /\ arg.fn = "send_counts_all_to_all" /\ ret.ok
    /\ arg.send.axis_contig = 1 /\ arg.recv.axis_contig = 2
    /\ arg.send.comm.dims = Vec(<<2, 2>>)
    /\ arg.send.dists[0].sz = 2 /\ arg.send.dists[2].sz = 2
    /\ ret.counts = Vec(<<4, 8>>)

----------------------------------------------------------------------------
\* C18. Pack layout: in every transpose of Decomp2 and Decomp3, of an array
\* whose elements are pairwise distinct, the segment
\* [displs[r], displs[r] + counts[r]) of the buffer a process has packed and
\* posted holds, for each destination rank r, exactly the local elements whose
\* index along the send pencil's contiguous axis lies in rank r's chunk of the
\* receive pencil: as many elements as there are such indices, and each of
\* those elements exactly once.
C18_PackLayout ==
    \A p \in Procs : \A k \in 1..Len(posted[p]) :
        LET arr == data[p][k]
        IN (/\ prog[k] \in Transposes
            /\ \A a \in DOMAIN arr.data : \A b \in DOMAIN arr.data :
                  arr.data[a] = arr.data[b] => a = b) =>
            LET post == posted[p][k]
                c    == SendPencil(decomp[p], prog[k]).axis_contig
                dist == RecvPencil(decomp[p], prog[k]).dists[c]
            IN \A r \in DOMAIN post.counts :
                 LET seg  == partition(post.buf, post.counts, post.displs, r)
                     dest == {pos \in DOMAIN arr.data :
                                Unravel(arr.shape, pos - 1)[c + 1]
                                  \in dist.st_procs[r]..dist.en_procs[r]}
                 IN /\ Len(seg) = Cardinality(dest)
                    /\ \A pos \in dest :
                          Cardinality({s \in DOMAIN seg : seg[s] = arr.data[pos]}) = 1

\* A process of a 2 x 2 grid has packed a 2 x 2 x 3 z-pencil for
\* transpose_z_to_y into two segments of different lengths.
C18_Witness ==
    /\ Len(prog) >= 1 /\ prog[1] = "transpose_z_to_y"
    /\ decomp[0].z_pencil.comm.dims = Vec(<<2, 2>>)
    /\ \E p \in Procs :
          /\ Len(posted[p]) >= 1
          /\ data[p][1].shape = Vec(<<2, 2, 3>>)
          /\ posted[p][1].counts = Vec(<<4, 8>>)
          /\ posted[p][1].displs = Vec(<<0, 4>>)

----------------------------------------------------------------------------
\* C19. Minimal participant set: in every transpose the sub-group of a process
\* is the line of processes that share all its process-grid coordinates but
\* the one mapped from the receive pencil's contiguous axis; its rank in the
\* sub-group is its coordinate along that dimension; and once it has returned,
\* every element it holds was sent by a process of that line and none was held
\* by a process that differs in another coordinate.
C19_MinimalParticipants ==
    \A r \in Procs : \A k \in 1..ip[r] :
        prog[k] \in Transposes =>
            LET sp   == SendPencil(decomp[r], prog[k])
                axis == RecvPencil(decomp[r], prog[k]).axis_contig
                dim  == IF axis < sp.axis_contig THEN axis ELSE axis - 1
                line == {q \in Procs : \A e \in DOMAIN sp.comm.coords :
                            e # dim => decomp[q].x_pencil.comm.coords[e] = sp.comm.coords[e]}
                comm == CommOf(r, prog[k])
                held(q) == IF Len(data[q]) >= k
                           THEN {data[q][k].data[a] : a \in DOMAIN data[q][k].data}
                           ELSE {}
            IN /\ GroupOf(r, k) = line
               /\ VLen(comm.members) = sp.comm.dims[dim]
               /\ comm.rank = sp.comm.coords[dim]
               /\ comm.members[comm.rank] = r
               /\ Completed(r, k) =>
                     \A pos \in DOMAIN data[r][k + 1].data :
                        /\ \E q \in line : data[r][k + 1].data[pos] \in held(q)
                        /\ \A q \in Procs \ line : data[r][k + 1].data[pos] \notin held(q)

\* A process of a 2 x 2 grid has returned from transpose_y_to_z, which it
\* exchanged with one of the three other processes, all of which hold data.
C19_Witness ==
    /\ Len(prog) >= 1 /\ prog[1] = "transpose_y_to_z"
    /\ decomp[0].y_pencil.comm.dims = Vec(<<2, 2>>)
    /\ \E r \in Procs :
          /\ Completed(r, 1)
          /\ Cardinality(GroupOf(r, 1)) = 2
          /\ Cardinality(Procs \ GroupOf(r, 1)) = 2
          /\ \A q \in Procs : Len(data[q][1].data) > 0

----------------------------------------------------------------------------
\* C20. Completion of collectives: when every process of the grid runs the
\* same sequence of Decomp operations with correctly shaped buffers, no
\* process fails; each operation a process has called has issued exactly one
\* collective call; all members of a sub-group issue the call of the same
\* operation in the same sub-group, the member of sub-group rank 0 in the root
\* variant of a gather or scatter and the others in the non-root variant; and
\* eventually every process has returned from every operation of the sequence,
\* the last one included, for good.
C20_Completion ==
    /\ [](\A r \in Procs :
            /\ pc[r] # "failed"
            /\ Len(posted[r]) = ip[r]
            /\ Len(data[r]) = ip[r] + (IF pc[r] = "ready" THEN 1 ELSE 0)
            /\ \A k \in 1..ip[r] : \A q \in GroupOf(r, k) :
                  /\ CommOf(q, prog[k]).members = CommOf(r, prog[k]).members
                  /\ CommOf(q, prog[k]).rank = 0 <=> q = RootOf(r, k)
                  /\ Len(posted[q]) >= k =>
                        ("counts" \in DOMAIN posted[q][k]
                           <=> (prog[k] \in Transposes
                                  \/ (prog[k] \in Scatters /\ q = RootOf(r, k)))))
    /\ <>[](\A r \in Procs : ip[r] = max_ops /\ pc[r] = "ready")

\* Every process of a 2 x 2 grid has returned from transpose_x_to_y, then
\* transpose_y_to_z, then transpose_z_to_y; the sub-groups of the first two
\* lie along different dimensions of the process grid.
C20_Witness ==
    /\ sched = "fair"
    /\ prog = <<"transpose_x_to_y", "transpose_y_to_z", "transpose_z_to_y">>
    /\ decomp[0].x_pencil.comm.dims = Vec(<<2, 2>>)
    /\ \A r \in Procs : Completed(r, 3) /\ pc[r] = "ready"
    /\ GroupOf(0, 1) # GroupOf(0, 2)

----------------------------------------------------------------------------
\* Process q has failed an assertion of its k-th operation before the
\* collective call of that operation.
FailedBefore(q, k) == pc[q] = "failed" /\ ip[q] = k /\ Len(posted[q]) < k

\* The processes that will never issue another collective call: those of
\* `stuck` and, with them, every process blocked in a collective call that a
\* member of its sub-group in `stuck` has not issued.
RECURSIVE NeverCalling(_)
NeverCalling(stuck) ==
    LET more == {r \in Procs \ stuck :
                    /\ pc[r] = "in_coll"
                    /\ \E q \in GroupOf(r, ip[r]) \cap stuck : Len(posted[q]) < ip[r]}
    IN IF more = {} THEN stuck ELSE NeverCalling(stuck \cup more)

----------------------------------------------------------------------------
----------------------------------------------------------------------------
\* C23. Distribution::split rejects invalid input: for p = 0 or n < p the call
\* fails rather than returning a Distribution, and no Distribution it returns
\* has a chunk of size zero or a chunk with en < st.
C23_AsStated ==
    arg.fn = "split" =>
        /\ (arg.nprocs = 0 \/ arg.n_global < arg.nprocs) => ret.panicked
        /\ ~ret.panicked =>
              \A i \in DOMAIN ret.val.sz_procs :
                 /\ ret.val.sz_procs[i] > 0
                 /\ ret.val.en_procs[i] >= ret.val.st_procs[i]

----------------------------------------------------------------------------
\* C24. Axis-to-process-grid mapping: a pencil that Pencil::new returns has
\* the distribution contiguous(n) on axis_contig (sz = n, st = 0, en = n - 1,
\* one chunk) and, on every other axis a, split(n[a], cart_dims[d], coords[d])
\* with d = a for a < axis_contig and d = a - 1 otherwise; d is the dimension
\* nprocs_along_axis and subcomm_along_axis use, dists[a].sz_procs has
\* nprocs_along_axis(a) entries, and the process's own sz, st and en are the
\* entries at its coordinate coords[d].
C24_AxisMapping ==
    (arg.fn = "Pencil::new" /\ ~ret.panicked) =>
        LET pencil == ret.val
            n      == arg.n_global
            coords == pencil.comm.coords
        IN /\ pencil.axis_contig = arg.axis_contig
           /\ pencil.comm.dims = arg.cart_ndims
           /\ DOMAIN pencil.dists = DOMAIN n
           /\ \A a \in DOMAIN n :
                 LET dist == pencil.dists[a]
                     d    == IF a < arg.axis_contig THEN a ELSE a - 1
                 IN IF a = arg.axis_contig
                    THEN /\ dist = contiguous(n[a])
                         /\ dist.sz = n[a] /\ dist.st = 0 /\ dist.en = n[a] - 1
                         /\ dist.sz_procs = Vec(<<n[a]>>)
                         /\ dist.st_procs = Vec(<<0>>)
                         /\ dist.en_procs = Vec(<<n[a] - 1>>)
                    ELSE /\ dist = split(n[a], arg.cart_ndims[d], coords[d])
                         /\ map_dim_to_cart_dim(pencil, a) = d
                         /\ nprocs_along_axis(pencil, a) = arg.cart_ndims[d]
                         /\ subcomm_along_axis(pencil, a).rank = coords[d]
                         /\ VLen(dist.sz_procs) = nprocs_along_axis(pencil, a)
                         /\ dist.sz = dist.sz_procs[coords[d]]
                         /\ dist.st = dist.st_procs[coords[d]]
                         /\ dist.en = dist.en_procs[coords[d]]

\* Pencil::new has returned the y-pencil of the last process of a 1 x 2 grid:
\* axis 0 is split along dimension 0 and axis 2 along dimension 1.
C24_Witness ==
    /\ arg.fn = "Pencil::new" /\ ~ret.panicked
    /\ arg.n_global = Vec(<<3, 3, 3>>) /\ arg.cart_ndims = Vec(<<1, 2>>)
    /\ arg.axis_contig = 1 /\ arg.rank = 1
    /\ ret.val.dists[0].sz = 3 /\ ret.val.dists[2].sz = 2 /\ ret.val.dists[2].st = 1

----------------------------------------------------------------------------
\* C25. Ownership partition of the global grid: for each pencil of a
\* decomposition whose split axes are each at least as long as their process
\* count, every global index lies in the box [st, en] per axis of exactly one
\* process of the process grid, every box lies inside the global grid, and
\* the local lengths len() of all processes sum to the product of the global
\* shape.
C25_OwnershipPartition ==
    \A layout \in DOMAIN HeldPencils(decomp[0]) :
        LET n        == decomp[0].n_global
            held(r)  == HeldPencils(decomp[r])[layout]
            owns(r, idx) == \A a \in DOMAIN n :
                               held(r).dists[a].st <= idx[a] /\ idx[a] <= held(r).dists[a].en
        IN /\ \A idx \in [DOMAIN n -> 0..(MaxN - 1)] :
                 (\A a \in DOMAIN n : idx[a] < n[a]) =>
                     Cardinality({r \in Procs : owns(r, idx)}) = 1
           /\ \A r \in Procs : \A a \in DOMAIN n :
                 /\ 0 <= held(r).dists[a].st
                 /\ held(r).dists[a].st <= held(r).dists[a].en
                 /\ held(r).dists[a].en < n[a]
           /\ VSum([r \in Procs |-> len(held(r))]) = VProd(n)
           /\ \A r \in Procs : len_global(held(r)) = VProd(n)

\* The four processes of a 2 x 2 grid hold the pencils of a 3 x 3 x 3 grid, no
\* axis of which splits evenly, and have each returned from an operation.
C25_Witness ==
    /\ decomp[0].n_global = Vec(<<3, 3, 3>>)
    /\ decomp[0].x_pencil.comm.dims = Vec(<<2, 2>>)
    /\ Cardinality(Procs) = 4
    /\ \A r \in Procs : Completed(r, 1)
    /\ len(decomp[0].z_pencil) # len(decomp[3].z_pencil)

----------------------------------------------------------------------------
\* The transposes a decomposition offers, and the indices the merge routine
\* of each writes, one per buffer position read.
TransposesOf(d) ==
    IF DecompM(d) = 2 THEN {"transpose_x_to_y", "transpose_y_to_x"} ELSE Transposes

MergeWrites(d, op) ==
    LET sp == SendPencil(d, op)  rp == RecvPencil(d, op)
    IN CASE DecompM(d) = 2 /\ op = "transpose_x_to_y" -> D2_merge_xy_writes(sp, rp)
         [] DecompM(d) = 2 /\ op = "transpose_y_to_x" -> D2_merge_yx_writes(sp, rp)
         [] DecompM(d) = 3 /\ op = "transpose_x_to_y" -> D3_merge_xy_writes(sp, rp)
         [] DecompM(d) = 3 /\ op = "transpose_y_to_x" -> D3_merge_yx_writes(sp, rp)
         [] DecompM(d) = 3 /\ op = "transpose_y_to_z" -> D3_merge_yz_writes(sp, rp)
         [] DecompM(d) = 3 /\ op = "transpose_z_to_y" -> D3_merge_zy_writes(sp, rp)

\* C26. Unpack is a bijection: in every merge routine of Decomp2 and Decomp3,
\* with the source ranks visited in increasing order, every index written lies
\* inside the shape of the output array, no index is written twice, every
\* position of the output array is written, and the read position ends at
\* recv_pencil.len(); unpacking a buffer that holds its own positions leaves
\* each of them in the output array once.
C26_UnpackBijection ==
    \A r \in Procs : \A op \in TransposesOf(decomp[r]) :
        LET d      == decomp[r]
            rp     == RecvPencil(d, op)
            writes == MergeWrites(d, op)
            out    == transpose_merge(d, op, [p \in 1..len(rp) |-> p],
                                      Filled(shape(rp), Blank))
        IN /\ Len(writes) = len(rp)
           /\ \A p \in 1..Len(writes) : InBounds(shape(rp), writes[p])
           /\ \A p, q \in 1..Len(writes) : p # q => writes[p] # writes[q]
           /\ Cardinality({writes[p] : p \in 1..Len(writes)}) = VProd(shape(rp))
           /\ out.ok
           /\ {out.arr.data[p] : p \in 1..Len(out.arr.data)} = 1..len(rp)
           /\ \A p \in 1..Len(writes) : At(out.arr, writes[p]) = p

\* A process of a 2 x 2 grid has unpacked the buffer of transpose_y_to_z
\* into its z-pencil of a 3 x 3 x 3 grid, whose source ranks sent chunks of
\* different lengths.
C26_Witness ==
    \E r \in Procs : \E k \in 1..ip[r] :
        /\ decomp[r].n_global = Vec(<<3, 3, 3>>)
        /\ decomp[r].x_pencil.comm.dims = Vec(<<2, 2>>)
        /\ prog[k] = "transpose_y_to_z"
        /\ Completed(r, k)
        /\ data[r][k + 1] = test_array_from_pencil(decomp[r].z_pencil)

====
